---- MODULE Spec2Model ----
(***************************************************************************)
(* A model of the cryptobot client library (package cryptobot): the        *)
(* webhook handler HandleUpdate, the API operations built on makeRequest,  *)
(* the response envelope and the request validation rules.                 *)
(*                                                                         *)
(* Byte sequences (request and response bodies) are sequences of JSON      *)
(* lexemes; encoding/json is modelled by a parser over lexemes followed by *)
(* a typed decode into the Go types of the package. crypto/sha256 and      *)
(* crypto/hmac are modelled by a hash of DigestSize bytes and the HMAC     *)
(* construction over it.                                                   *)
(***************************************************************************)
EXTENDS Integers, Sequences, FiniteSets, TLC

VARIABLES cb, req, hu, call, net, ret

vars == <<cb, req, hu, call, net, ret>>

(***************************************************************************)
(* Bounds of the model.                                                    *)
(***************************************************************************)
\* width of a digest in bytes (sha256.Size is 32)
DigestSize == 2
\* update, invoice, check and transfer ids range over 1..MaxId
MaxId == 2
\* number of API operations one behaviour invokes
MaxOps == 2

(***************************************************************************)
(* JSON text: a sequence of lexemes.                                       *)
(***************************************************************************)
Punct(c) == [k |-> "punct", v |-> c]
Str(s) == [k |-> "str", v |-> s]
Num(n) == [k |-> "num", v |-> n]
Lit(w) == [k |-> "lit", v |-> w]
\* a byte that starts no JSON lexeme
Junk == [k |-> "junk", v |-> "#"]

LBrace == Punct("{")
RBrace == Punct("}")
LBrack == Punct("[")
RBrack == Punct("]")
Comma == Punct(",")
Colon == Punct(":")

(***************************************************************************)
(* JSON values, as encoding/json's scanner delimits them: null, booleans,  *)
(* numbers, strings, arrays and objects (members in order of appearance,   *)
(* duplicates kept).                                                       *)
(***************************************************************************)
JNull == [k |-> "null", v |-> 0]
JBool(b) == [k |-> "bool", v |-> b]
JNum(n) == [k |-> "num", v |-> n]
JStr(s) == [k |-> "str", v |-> s]
JArr(elems) == [k |-> "arr", v |-> elems]
JObj(members) == [k |-> "obj", v |-> members]

RECURSIVE Encode(_)
RECURSIVE EncodeElems(_)
RECURSIVE EncodeMembers(_)
\* json text of a value (no insignificant whitespace)
Encode(j) ==
    CASE j.k = "null" -> <<Lit("null")>>
      [] j.k = "bool" -> <<Lit(IF j.v THEN "true" ELSE "false")>>
      [] j.k = "num" -> <<Num(j.v)>>
      [] j.k = "str" -> <<Str(j.v)>>
      [] j.k = "arr" -> <<LBrack>> \o EncodeElems(j.v) \o <<RBrack>>
      [] j.k = "obj" -> <<LBrace>> \o EncodeMembers(j.v) \o <<RBrace>>

EncodeElems(es) ==
    IF es = <<>> THEN <<>>
    ELSE Encode(Head(es))
         \o (IF Tail(es) = <<>> THEN <<>> ELSE <<Comma>> \o EncodeElems(Tail(es)))

EncodeMembers(ms) ==
    IF ms = <<>> THEN <<>>
    ELSE <<Str(Head(ms)[1]), Colon>> \o Encode(Head(ms)[2])
         \o (IF Tail(ms) = <<>> THEN <<>> ELSE <<Comma>> \o EncodeMembers(Tail(ms)))

(***************************************************************************)
(* The scanner of encoding/json (checkValid, then the value grammar):      *)
(* ParseValue reads one value starting at lexeme i and answers             *)
(* [ok, val, next].                                                        *)
(***************************************************************************)
ParseFail == [ok |-> FALSE, val |-> JNull, next |-> 0]
ParseOk(val, next) == [ok |-> TRUE, val |-> val, next |-> next]

RECURSIVE ParseValue(_, _)
RECURSIVE ParseElems(_, _, _)
RECURSIVE ParseMembers(_, _, _)
ParseValue(t, i) ==
    IF i > Len(t) THEN ParseFail
    ELSE LET x == t[i] IN
         CASE x.k = "lit" ->
                ParseOk(IF x.v = "null" THEN JNull ELSE JBool(x.v = "true"), i + 1)
           [] x.k = "num" -> ParseOk(JNum(x.v), i + 1)
           [] x.k = "str" -> ParseOk(JStr(x.v), i + 1)
           [] x = LBrack ->
                IF i + 1 <= Len(t) /\ t[i + 1] = RBrack
                THEN ParseOk(JArr(<<>>), i + 2)
                ELSE ParseElems(t, i + 1, <<>>)
           [] x = LBrace ->
                IF i + 1 <= Len(t) /\ t[i + 1] = RBrace
                THEN ParseOk(JObj(<<>>), i + 2)
                ELSE ParseMembers(t, i + 1, <<>>)
           [] OTHER -> ParseFail

\* elements after "[" or ",": value, then "," or "]"
ParseElems(t, i, acc) ==
    LET e == ParseValue(t, i) IN
    IF ~e.ok \/ e.next > Len(t) THEN ParseFail
    ELSE IF t[e.next] = RBrack THEN ParseOk(JArr(Append(acc, e.val)), e.next + 1)
    ELSE IF t[e.next] = Comma THEN ParseElems(t, e.next + 1, Append(acc, e.val))
    ELSE ParseFail

\* members after "{" or ",": string, ":", value, then "," or "}"
ParseMembers(t, i, acc) ==
    IF i + 1 > Len(t) \/ t[i].k # "str" \/ t[i + 1] # Colon THEN ParseFail
    ELSE LET e == ParseValue(t, i + 2)
             m == <<t[i].v, e.val>>
         IN  IF ~e.ok \/ e.next > Len(t) THEN ParseFail
             ELSE IF t[e.next] = RBrace
                  THEN ParseOk(JObj(Append(acc, m)), e.next + 1)
             ELSE IF t[e.next] = Comma
                  THEN ParseMembers(t, e.next + 1, Append(acc, m))
             ELSE ParseFail

\* the whole input is one JSON value (trailing data is a syntax error)
Parse(t) ==
    LET r == ParseValue(t, 1) IN
    IF r.ok /\ r.next = Len(t) + 1 THEN r ELSE ParseFail

(***************************************************************************)
(* Go types, as far as encoding/json looks at them.                        *)
(***************************************************************************)
TInt == [k |-> "int"]
TString == [k |-> "string"]
TBool == [k |-> "bool"]
\* json.RawMessage
TRaw == [k |-> "raw"]
TSlice(e) == [k |-> "slice", elem |-> e]
\* a struct field: its Go name, its json key and its type
F(name, key, type) == [name |-> name, key |-> key, type |-> type]

\* the zero value of a type
Zero(t) ==
    CASE t.k = "int" -> 0
      [] t.k = "string" -> ""
      [] t.k = "bool" -> FALSE
      [] t.k = "raw" -> <<>>
      [] t.k = "slice" -> <<>>
      [] t.k = "struct" -> t.zero

\* a struct type: its fields in order, the place of each json key among
\* them, and its zero value
TStruct(fs) ==
    [k |-> "struct",
     fields |-> fs,
     at |-> [key \in {fs[i].key : i \in 1..Len(fs)} |->
                CHOOSE i \in 1..Len(fs) : fs[i].key = key],
     zero |-> [n \in {fs[i].name : i \in 1..Len(fs)} |->
                Zero(fs[CHOOSE i \in 1..Len(fs) : fs[i].name = n].type)]]

Invoice ==
    TStruct(<<
        F("ID", "invoice_id", TInt),
        F("Hash", "hash", TString),
        F("CurrencyType", "currency_type", TString),
        F("CryptoAsset", "asset", TString),
        F("AcceptedCryptoAssets", "accepted_assets", TSlice(TString)),
        F("Fiat", "fiat", TString),
        F("Amount", "amount", TString),
        F("PaidAsset", "paid_asset", TString),
        F("PaidAmount", "paid_amount", TString),
        F("PaidFiatRate", "paid_fiat_rate", TString),
        F("FeeAsset", "fee_asset", TString),
        F("FeeAmount", "fee_amount", TInt),
        F("BotInvoiceURL", "bot_invoice_url", TString),
        F("MiniAppInvoiceURL", "mini_app_invoice_url", TString),
        F("WebAppInvoiceURL", "web_app_invoice_url", TString),
        F("Description", "description", TString),
        F("Status", "status", TString),
        F("CreatedAt", "created_at", TString),
        F("PaidUSDRate", "paid_usd_rate", TString),
        F("AllowComments", "allow_comments", TBool),
        F("AllowAnonymous", "allow_anonymous", TBool),
        F("ExpirationDate", "expiration_date", TString),
        F("PaidAt", "paid_at", TString),
        F("PaidAnonymously", "paid_anonymously", TBool),
        F("Comment", "comment", TString),
        F("HiddenMessage", "hidden_message", TString),
        F("Payload", "payload", TString),
        F("PaidBtnName", "paid_btn_name", TString),
        F("PaidBtnUrl", "paid_btn_url", TString)
    >>)

Check ==
    TStruct(<<
        F("ID", "check_id", TInt),
        F("Hash", "hash", TString),
        F("CryptoAsset", "asset", TString),
        F("Amount", "amount", TString),
        F("BotCheckURL", "bot_check_url", TString),
        F("Status", "status", TString),
        F("CreatedAt", "created_at", TString),
        F("ActivatedAt", "activated_at", TString)
    >>)

Transfer ==
    TStruct(<<
        F("ID", "transfer_id", TInt),
        F("SpendID", "spend_id", TString),
        F("UserID", "user_id", TInt),
        F("CryptoAsset", "asset", TString),
        F("Amount", "amount", TString),
        F("Status", "status", TString),
        F("CompletedAt", "completed_at", TString),
        F("Comment", "comment", TString)
    >>)

AppStats ==
    TStruct(<<
        F("Volume", "volume", TInt),
        F("Conversion", "conversion", TInt),
        F("UniqueUsers", "unique_users_count", TInt),
        F("CreatedInvoices", "created_invoice_count", TInt),
        F("PaidInvoices", "paid_invoice_count", TInt),
        F("StartAt", "start_at", TString),
        F("EndAt", "end_at", TString)
    >>)

Balance ==
    TStruct(<<
        F("CryptoAsset", "currency_code", TString),
        F("Available", "available", TString),
        F("OnHold", "onhold", TString)
    >>)

ExchangeRate ==
    TStruct(<<
        F("IsValid", "is_valid", TBool),
        F("IsCrypto", "is_crypto", TBool),
        F("IsFiat", "is_fiat", TBool),
        F("Source", "source", TString),
        F("Target", "target", TString),
        F("Rate", "rate", TString)
    >>)

Update ==
    TStruct(<<
        F("ID", "update_id", TInt),
        F("Type", "update_type", TString),
        F("RequestDate", "request_date", TString),
        F("Payload", "payload", Invoice)
    >>)

\* struct { Items []T `json:"items"` }
ItemsOf(t) == TStruct(<<F("Items", "items", TSlice(t))>>)

\* response[T]
response(t) ==
    TStruct(<<
        F("Ok", "ok", TBool),
        F("Error", "error", TRaw),
        F("Result", "result", t)
    >>)

(***************************************************************************)
(* json.Unmarshal's decode of a JSON value j into a Go value of type t     *)
(* that currently holds cur: [err, val]. A value of the wrong JSON kind is *)
(* an UnmarshalTypeError (the decode goes on and reports it at the end); a *)
(* null leaves a scalar or a struct as it is and empties a slice; a        *)
(* RawMessage takes the value's text as it stands; object keys matching no *)
(* field are skipped; a repeated key is decoded again into the same field. *)
(***************************************************************************)
RECURSIVE Decode(_, _, _)
RECURSIVE DecodeElems(_, _)
RECURSIVE DecodeMembers(_, _, _)
Decode(t, j, cur) ==
    IF t.k = "raw" THEN [err |-> FALSE, val |-> Encode(j)]
    ELSE IF j.k = "null"
    THEN [err |-> FALSE, val |-> IF t.k = "slice" THEN <<>> ELSE cur]
    ELSE CASE t.k = "int" ->
                IF j.k = "num" THEN [err |-> FALSE, val |-> j.v]
                ELSE [err |-> TRUE, val |-> cur]
           [] t.k = "string" ->
                IF j.k = "str" THEN [err |-> FALSE, val |-> j.v]
                ELSE [err |-> TRUE, val |-> cur]
           [] t.k = "bool" ->
                IF j.k = "bool" THEN [err |-> FALSE, val |-> j.v]
                ELSE [err |-> TRUE, val |-> cur]
           [] t.k = "slice" ->
                IF j.k = "arr" THEN DecodeElems(t.elem, j.v)
                ELSE [err |-> TRUE, val |-> cur]
           [] t.k = "struct" ->
                IF j.k = "obj" THEN DecodeMembers(t, j.v, cur)
                ELSE [err |-> TRUE, val |-> cur]

\* a slip: each element is put before those decoded so far
DecodeElemsPrepending(e, js) ==
    IF js = <<>> THEN [err |-> FALSE, val |-> <<>>]
    ELSE LET h == Decode(e, Head(js), Zero(e))
             r == DecodeElems(e, Tail(js))
         IN  [err |-> h.err \/ r.err, val |-> r.val \o <<h.val>>]

DecodeElems(e, js) ==
    IF js = <<>> THEN [err |-> FALSE, val |-> <<>>]
    ELSE LET h == Decode(e, Head(js), Zero(e))
             r == DecodeElems(e, Tail(js))
         IN  [err |-> h.err \/ r.err, val |-> <<h.val>> \o r.val]

DecodeMembers(t, ms, cur) ==
    IF ms = <<>> THEN [err |-> FALSE, val |-> cur]
    ELSE LET key == Head(ms)[1]
         IN  IF key \notin DOMAIN t.at THEN DecodeMembers(t, Tail(ms), cur)
             ELSE LET f == t.fields[t.at[key]]
                      d == Decode(f.type, Head(ms)[2], cur[f.name])
                      r == DecodeMembers(t, Tail(ms), [cur EXCEPT ![f.name] = d.val])
                  IN  [err |-> d.err \/ r.err, val |-> r.val]

\* json.Unmarshal(data, &v) with v the zero value of type t: [err, val]
Unmarshal(data, t) ==
    LET p == Parse(data) IN
    IF ~p.ok THEN [err |-> TRUE, val |-> Zero(t)]
    ELSE Decode(t, p.val, Zero(t))

(***************************************************************************)
(* The bytes of a lexeme, for the hash: its class and its index among the  *)
(* lexemes of that class.                                                  *)
(***************************************************************************)
Puncts == <<"{", "}", "[", "]", ",", ":">>
Words == <<"true", "false", "null">>
\* every string that occurs in a body of the model
Strings ==
    <<"update_id", "update_type", "request_date", "payload", "invoice_id",
      "invoice_paid", "amount", "asset", "status", "ok", "error", "result",
      "items", "code", "name", "x", "TON", "BTC", "check_id", "transfer_id",
      "volume", "currency_code", "rate", "app_id", "hash", "paid", "active",
      "completed", "user_id", "spend_id">>

IndexOf(seq, x) == CHOOSE i \in 1..Len(seq) : seq[i] = x

LexemeBytes(x) ==
    CASE x.k = "punct" -> <<1, IndexOf(Puncts, x.v)>>
      [] x.k = "lit" -> <<2, IndexOf(Words, x.v)>>
      [] x.k = "num" -> <<3, x.v>>
      [] x.k = "str" -> <<4, IndexOf(Strings, x.v)>>
      [] OTHER -> <<0, 0>>

Bytes(t) == [i \in 1..(2 * Len(t)) |-> LexemeBytes(t[(i + 1) \div 2])[2 - (i % 2)]]

(***************************************************************************)
(* crypto/sha256 and crypto/hmac. Sum256 is a hash of DigestSize bytes:    *)
(* byte i of the digest is the fold h := h * b + x + 1 (mod 251) over the  *)
(* bytes x of the input, with its own multiplier b; the fold is computed   *)
(* by halves. HMAC is the construction of RFC 2104 over it, with a block   *)
(* of twice the digest's size as in SHA-256.                               *)
(***************************************************************************)
RECURSIVE Xor(_, _)
Xor(a, b) ==
    IF a = 0 THEN b
    ELSE IF b = 0 THEN a
    ELSE 2 * Xor(a \div 2, b \div 2) + (((a % 2) + (b % 2)) % 2)

RECURSIVE PowMod(_, _)
PowMod(b, e) ==
    IF e = 0 THEN 1
    ELSE LET h == PowMod(b, e \div 2)
         IN  (((h * h) % 251) * (IF e % 2 = 1 THEN b ELSE 1)) % 251

RECURSIVE FoldRange(_, _, _, _)
FoldRange(m, b, lo, hi) ==
    IF lo > hi THEN 0
    ELSE IF lo = hi THEN (m[lo] + 1) % 251
    ELSE LET mid == (lo + hi) \div 2
         IN  (FoldRange(m, b, lo, mid) * PowMod(b, hi - mid)
              + FoldRange(m, b, mid + 1, hi)) % 251

Fold(m, b) == (89 * PowMod(b, Len(m)) + FoldRange(m, b, 1, Len(m))) % 251

BlockSize == 2 * DigestSize

\* sha256.Sum256(m)
Sum256(m) == [i \in 1..DigestSize |-> Fold(m, 6 * i + 1)]

\* hmac.New(sha256.New, key); h.Write(m); h.Sum(nil)
HMAC(key, m) ==
    LET k0 == [i \in 1..BlockSize |-> IF i <= Len(key) THEN key[i] ELSE 0]
        ipad == [i \in 1..BlockSize |-> Xor(k0[i], 54)]
        opad == [i \in 1..BlockSize |-> Xor(k0[i], 92)]
    IN  Sum256(opad \o Sum256(ipad \o m))

HexLower == <<"0", "1", "2", "3", "4", "5", "6", "7", "8", "9", "a", "b", "c", "d", "e", "f">>
HexUpper == <<"0", "1", "2", "3", "4", "5", "6", "7", "8", "9", "A", "B", "C", "D", "E", "F">>

\* two digits for each byte
HexOf(digits, bs) ==
    [i \in 1..(2 * Len(bs)) |->
        LET x == bs[(i + 1) \div 2]
        IN  digits[(IF i % 2 = 1 THEN x \div 16 ELSE x % 16) + 1]]

\* fmt.Sprintf("%x", bs)
SprintfX(bs) == HexOf(HexLower, bs)

(***************************************************************************)
(* Errors. kind is the Go type of the error value: nil, errorString        *)
(* (errors.New), wrapError (fmt.Errorf with %w), joinError (errors.Join),  *)
(* jsonError (encoding/json), urlError (net/url), transport (whatever the  *)
(* HTTP client returned). msgs is the message (the joined messages of a    *)
(* joinError); raw is the text an errorString was built from when that is  *)
(* a byte sequence of a response.                                          *)
(***************************************************************************)
Nil == [kind |-> "nil", msgs |-> <<>>, raw |-> <<>>]
ErrorsNew(msg) == [kind |-> "errorString", msgs |-> <<msg>>, raw |-> <<>>]
ErrorsNewRaw(bytes) == [kind |-> "errorString", msgs |-> <<>>, raw |-> bytes]
Errorf(msg) == [kind |-> "wrapError", msgs |-> <<msg>>, raw |-> <<>>]
ErrorsJoin(msgs) == [kind |-> "joinError", msgs |-> msgs, raw |-> <<>>]
JSONError == [kind |-> "jsonError", msgs |-> <<>>, raw |-> <<>>]
URLError == [kind |-> "urlError", msgs |-> <<>>, raw |-> <<>>]

(***************************************************************************)
(* The client.                                                             *)
(***************************************************************************)
Mainnet == "https://pay.crypt.bot/api"
Testnet == "https://testnet-pay.crypt.bot/api"
\* an endpoint url.Parse rejects
BadEndpoint == "://pay.crypt.bot"

\* http.DefaultClient
DefaultClient == "http.DefaultClient"
CustomClient == "custom"
NoClient == "nil"

\* a slip: the endpoint is looked at before the token
NewClientEndpointFirst(cf) ==
    IF Len(cf.Endpoint) = 0
    THEN [client |-> NoClient, err |-> ErrorsNew("no endpoint was provided for crypto bot")]
    ELSE IF Len(cf.Token) = 0
    THEN [client |-> NoClient, err |-> ErrorsNew("no token was provided for crypto bot")]
    ELSE [client |-> [token |-> cf.Token, endpoint |-> cf.Endpoint,
                      client |-> IF cf.Client = NoClient THEN DefaultClient ELSE cf.Client],
          err |-> Nil]

\* NewClient(cf): [client, err], client being NoClient (nil) on failure
NewClient(cf) ==
    IF Len(cf.Token) = 0
    THEN [client |-> NoClient, err |-> ErrorsNew("no token was provided for crypto bot")]
    ELSE IF Len(cf.Endpoint) = 0
    THEN [client |-> NoClient, err |-> ErrorsNew("no endpoint was provided for crypto bot")]
    ELSE [client |-> [token |-> cf.Token, endpoint |-> cf.Endpoint,
                      client |-> IF cf.Client = NoClient THEN DefaultClient ELSE cf.Client],
          err |-> Nil]

TokenA == <<7, 1>>
TokenB == <<7, 2>>
Tokens == {TokenA, TokenB}

Configs ==
    [Token : Tokens \cup {<<>>},
     Endpoint : {"", Mainnet, Testnet, BadEndpoint},
     Client : {NoClient, CustomClient}]

\* the clients construction can return
Clients == {NewClient(cf).client : cf \in {c \in Configs : NewClient(c).err = Nil}}

(***************************************************************************)
(* HandleUpdate.                                                           *)
(***************************************************************************)
\* r.Header.Get("crypto-pay-api-signature"): the first value, "" when absent
HeaderGet(r) == IF r.Header = <<>> THEN <<>> ELSE r.Header[1]

\* a slip: the raw token as the MAC key
SignatureRawKey(c, body) == SprintfX(HMAC(c.token, Bytes(body)))

\* a slip: %X for %x
SignatureUpperHex(c, body) == HexOf(HexUpper, HMAC(Sum256(c.token), Bytes(body)))

\* the hex of the MAC of body under the hash of the token
Signature(c, body) == SprintfX(HMAC(Sum256(c.token), Bytes(body)))

SignatureMissing == ErrorsNew("crypto-pay-api-signature header was not found")
BodyUnread == Errorf("failed to read the update body")
VerifyFailed == ErrorsNew("failed to verify the update")
UnmarshalFailed == Errorf("failed to unmarshal the update")

\* nothing done yet, nothing returned
HandleUpdateIdle ==
    [done |-> FALSE, reads |-> 0, macs |-> 0, macOver |-> <<>>, unmarshals |-> 0,
     parsed |-> <<>>, u |-> Zero(Update), err |-> Nil]

\* a slip: the body is read before the header is looked at
HandleUpdateReadsFirst(c, r) ==
    LET sig == HeaderGet(r)
        none == [HandleUpdateIdle EXCEPT !.done = TRUE, !.reads = 1]
    IN  IF r.Body.fails THEN [none EXCEPT !.err = BodyUnread]
        ELSE IF Len(sig) = 0 THEN [none EXCEPT !.err = SignatureMissing]
        ELSE LET body == r.Body.data
                 read == [none EXCEPT !.macs = 1, !.macOver = body]
             IN  IF sig # Signature(c, body) THEN [read EXCEPT !.err = VerifyFailed]
                 ELSE LET d == Unmarshal(body, Update)
                          tried == [read EXCEPT !.unmarshals = 1, !.parsed = body]
                      IN  IF d.err THEN [tried EXCEPT !.err = UnmarshalFailed]
                          ELSE [tried EXCEPT !.u = d.val]

\* a slip: a body that does not decode is reported as a failed verification
HandleUpdateOneError(c, r) ==
    LET sig == HeaderGet(r)
        none == [HandleUpdateIdle EXCEPT !.done = TRUE]
    IN  IF Len(sig) = 0 THEN [none EXCEPT !.err = SignatureMissing]
        ELSE IF r.Body.fails THEN [none EXCEPT !.reads = 1, !.err = BodyUnread]
        ELSE LET body == r.Body.data
                 read == [none EXCEPT !.reads = 1, !.macs = 1, !.macOver = body]
             IN  IF sig # Signature(c, body) THEN [read EXCEPT !.err = VerifyFailed]
                 ELSE LET d == Unmarshal(body, Update)
                          tried == [read EXCEPT !.unmarshals = 1, !.parsed = body]
                      IN  IF d.err THEN [tried EXCEPT !.err = VerifyFailed]
                          ELSE [tried EXCEPT !.u = d.val]

\* a slip: a body once accepted is not accepted again (req and hu being the
\* requests handled so far and what was returned for them)
HandleUpdateOnce(c, r) ==
    LET sig == HeaderGet(r)
        none == [HandleUpdateIdle EXCEPT !.done = TRUE]
    IN  IF Len(sig) = 0 THEN [none EXCEPT !.err = SignatureMissing]
        ELSE IF r.Body.fails THEN [none EXCEPT !.reads = 1, !.err = BodyUnread]
        ELSE LET body == r.Body.data
                 read == [none EXCEPT !.reads = 1, !.macs = 1, !.macOver = body]
             IN  IF sig # Signature(c, body) THEN [read EXCEPT !.err = VerifyFailed]
                 ELSE IF \E i \in 1..Len(hu) : hu[i].err = Nil /\ req[i].Body.data = body
                 THEN [read EXCEPT !.err = VerifyFailed]
                 ELSE LET d == Unmarshal(body, Update)
                          tried == [read EXCEPT !.unmarshals = 1, !.parsed = body]
                      IN  IF d.err THEN [tried EXCEPT !.err = UnmarshalFailed]
                          ELSE [tried EXCEPT !.u = d.val]

\* a slip: the body is read a second time for the decode, and a body that was
\* read to its end has nothing left
HandleUpdateReadsTwice(c, r) ==
    LET sig == HeaderGet(r)
        none == [HandleUpdateIdle EXCEPT !.done = TRUE]
    IN  IF Len(sig) = 0 THEN [none EXCEPT !.err = SignatureMissing]
        ELSE IF r.Body.fails THEN [none EXCEPT !.reads = 1, !.err = BodyUnread]
        ELSE LET body == r.Body.data
                 read == [none EXCEPT !.reads = 1, !.macs = 1, !.macOver = body]
             IN  IF sig # Signature(c, body) THEN [read EXCEPT !.err = VerifyFailed]
                 ELSE LET d == Unmarshal(<<>>, Update)
                          tried == [read EXCEPT !.reads = 2, !.unmarshals = 1, !.parsed = <<>>]
                      IN  IF d.err THEN [tried EXCEPT !.err = UnmarshalFailed]
                          ELSE [tried EXCEPT !.u = d.val]

\* a slip: when the decode fails, what it had filled in by then is returned
\* beside the error
HandleUpdatePartial(c, r) ==
    LET sig == HeaderGet(r)
        none == [HandleUpdateIdle EXCEPT !.done = TRUE]
    IN  IF Len(sig) = 0 THEN [none EXCEPT !.err = SignatureMissing]
        ELSE IF r.Body.fails THEN [none EXCEPT !.reads = 1, !.err = BodyUnread]
        ELSE LET body == r.Body.data
                 read == [none EXCEPT !.reads = 1, !.macs = 1, !.macOver = body]
             IN  IF sig # Signature(c, body) THEN [read EXCEPT !.err = VerifyFailed]
                 ELSE LET d == Unmarshal(body, Update)
                          tried == [read EXCEPT !.unmarshals = 1, !.parsed = body]
                      IN  IF d.err THEN [tried EXCEPT !.u = d.val, !.err = UnmarshalFailed]
                          ELSE [tried EXCEPT !.u = d.val]

\* HandleUpdate(r) on client c. Beside what it returns (u, err) the record
\* counts the calls of io.ReadAll (reads), of h.Write/h.Sum (macs) and of
\* json.Unmarshal (unmarshals), and keeps the bytes each was given.
HandleUpdateOf(c, r) ==
    LET sig == HeaderGet(r)
        none == [HandleUpdateIdle EXCEPT !.done = TRUE]
    IN  IF Len(sig) = 0 THEN [none EXCEPT !.err = SignatureMissing]
        ELSE IF r.Body.fails THEN [none EXCEPT !.reads = 1, !.err = BodyUnread]
        ELSE LET body == r.Body.data
                 read == [none EXCEPT !.reads = 1, !.macs = 1, !.macOver = body]
             IN  IF sig # Signature(c, body) THEN [read EXCEPT !.err = VerifyFailed]
                 ELSE LET d == Unmarshal(body, Update)
                          tried == [read EXCEPT !.unmarshals = 1, !.parsed = body]
                      IN  IF d.err THEN [tried EXCEPT !.err = UnmarshalFailed]
                          ELSE [tried EXCEPT !.u = d.val]

(***************************************************************************)
(* Inbound webhook requests. The gateway (or a forger) holds a token tok,  *)
(* signs a body signed, and the request arrives with a body that may be    *)
(* another one and with the signature as written, in upper case, with its  *)
(* first digit changed, empty, or missing.                                 *)
(***************************************************************************)
UpdateJSON(id, inv) ==
    JObj(<< <<"update_id", JNum(id)>>,
            <<"update_type", JStr("invoice_paid")>>,
            <<"request_date", JStr("x")>> >>
         \o (IF inv = 0 THEN <<>>
             ELSE << <<"payload", JObj(<< <<"invoice_id", JNum(inv)>>,
                                          <<"status", JStr("paid")>>,
                                          <<"asset", JStr("TON")>> >>)>> >>))

\* the Update the gateway means by UpdateJSON(id, inv)
UpdateOf(id, inv) ==
    [Zero(Update) EXCEPT
        !.ID = id, !.Type = "invoice_paid", !.RequestDate = "x",
        !.Payload = IF inv = 0 THEN Zero(Invoice)
                    ELSE [Zero(Invoice) EXCEPT !.ID = inv, !.Status = "paid",
                                               !.CryptoAsset = "TON"]]

GenuineBodies == {Encode(UpdateJSON(id, inv)) : id \in 1..MaxId, inv \in 0..MaxId}

DropLast(t) == SubSeq(t, 1, Len(t) - 1)

BrokenBodies ==
    { <<>>,
      <<Junk>>,
      DropLast(Encode(UpdateJSON(1, 0))),
      Encode(UpdateJSON(1, 0)) \o <<RBrace>>,
      Encode(JObj(<< <<"update_id", JStr("x")>> >>)),
      Encode(JObj(<< <<"update_id", JNum(1)>>, <<"update_type", JNum(1)>> >>)),
      Encode(JArr(<<JNum(1)>>)) }

\* JSON that is no update of the gateway and yet decodes
OddBodies ==
    { Encode(JNull),
      Encode(JObj(<<>>)),
      Encode(JObj(<< <<"x", JNum(1)>> >>)),
      Encode(JObj(<< <<"update_id", JNum(1)>>, <<"update_id", JNum(2)>> >>)) }

Bodies == GenuineBodies \cup BrokenBodies \cup OddBodies

FlipFirst(h) == [h EXCEPT ![1] = IF h[1] = "0" THEN "1" ELSE "0"]

SignatureForms(tok, signed) ==
    LET mac == HMAC(Sum256(tok), Bytes(signed))
    IN  {SprintfX(mac), HexOf(HexUpper, mac), FlipFirst(SprintfX(mac))}

Headers ==
    {<<>>, << <<>> >>}
    \cup {<<h>> : h \in UNION {SignatureForms(tok, b) : tok \in Tokens, b \in Bodies}}

\* r.Body: the bytes it holds, whether reading it fails, whether it was read
Requests ==
    [Header : Headers, Body : [data : Bodies, fails : BOOLEAN, consumed : {FALSE}]]

(***************************************************************************)
(* Strings: strconv.FormatInt, strings.Join, time.Time.Format.             *)
(***************************************************************************)
Digits == <<"0", "1", "2", "3", "4", "5", "6", "7", "8", "9">>

RECURSIVE FormatUint(_)
FormatUint(n) ==
    IF n < 10 THEN Digits[n + 1] ELSE FormatUint(n \div 10) \o Digits[(n % 10) + 1]

\* strconv.FormatInt(n, 10)
FormatInt(n) == IF n < 0 THEN "-" \o FormatUint(-n) ELSE FormatUint(n)

RECURSIVE JoinBackwards(_, _)
\* a slip: the elements are joined last to first
JoinBackwards(elems, sep) ==
    IF elems = <<>> THEN ""
    ELSE IF Len(elems) = 1 THEN elems[1]
    ELSE JoinBackwards(Tail(elems), sep) \o sep \o elems[1]

RECURSIVE Join(_, _)
\* strings.Join(elems, sep)
Join(elems, sep) ==
    IF elems = <<>> THEN ""
    ELSE IF Len(elems) = 1 THEN elems[1]
    ELSE elems[1] \o sep \o Join(Tail(elems), sep)

RECURSIVE Repeat(_, _)
\* strings.Repeat(s, n)
Repeat(s, n) ==
    IF n = 0 THEN ""
    ELSE IF n % 2 = 1 THEN s \o Repeat(s, n - 1)
    ELSE LET h == Repeat(s, n \div 2) IN h \o h

\* a time.Time at midnight UTC of a day; the zero Time is 1 January of year 1
Date(y, m, d) == [Year |-> y, Month |-> m, Day |-> d]
ZeroTime == Date(1, 1, 1)

Pad(n, width) == Repeat("0", width - Len(FormatUint(n))) \o FormatUint(n)

\* t.Format(time.RFC3339)
FormatRFC3339(t) ==
    Pad(t.Year, 4) \o "-" \o Pad(t.Month, 2) \o "-" \o Pad(t.Day, 2) \o "T00:00:00Z"

(***************************************************************************)
(* json.Marshal of a struct: the members in the order of the fields, a     *)
(* field tagged omitempty left out when it holds its zero value.           *)
(***************************************************************************)
Always(key, j) == << <<key, j>> >>
OmitEmptyStr(key, s) == IF s = "" THEN <<>> ELSE << <<key, JStr(s)>> >>
OmitEmptyInt(key, n) == IF n = 0 THEN <<>> ELSE << <<key, JNum(n)>> >>

(***************************************************************************)
(* Invoices: NewInvoice, InvoiceOptions, their encodings and validations.  *)
(***************************************************************************)
Crypto == "crypto"
Fiat == "fiat"

\* NewInvoice{}
NewInvoiceZero ==
    [CurrencyType |-> "", CryptoAsset |-> "", Fiat |-> "", AcceptedCryptoAssets |-> <<>>,
     Amount |-> "", Description |-> "", HiddenMessage |-> "", PaidBtnName |-> "",
     PaidBtnUrl |-> "", Payload |-> "", AllowComments |-> FALSE,
     AllowAnonymous |-> FALSE, ExpiresIn |-> 0]

\* NewInvoice.MarshalJSON
NewInvoiceMarshalJSON(in) ==
    Encode(JObj(
        Always("currency_type", JStr(in.CurrencyType))
        \o OmitEmptyStr("asset", in.CryptoAsset)
        \o OmitEmptyStr("fiat", in.Fiat)
        \o OmitEmptyStr("accepted_assets", Join(in.AcceptedCryptoAssets, ","))
        \o Always("amount", JStr(in.Amount))
        \o OmitEmptyStr("description", in.Description)
        \o OmitEmptyStr("hidden_message", in.HiddenMessage)
        \o OmitEmptyStr("paid_btn_name", in.PaidBtnName)
        \o OmitEmptyStr("paid_btn_url", in.PaidBtnUrl)
        \o OmitEmptyStr("payload", in.Payload)
        \o Always("allow_comments", JBool(in.AllowComments))
        \o Always("allow_anonymous", JBool(in.AllowAnonymous))
        \o OmitEmptyInt("expires_in", in.ExpiresIn)))

\* InvoiceOptions{}
InvoiceOptionsZero ==
    [CryptoAsset |-> "", Fiat |-> "", InvoiceIDs |-> <<>>, Status |-> "",
     Offset |-> 0, Count |-> 0]

\* ids := make([]string, len(src)), then one append per id
MadeThenAppended(src) ==
    [i \in 1..(2 * Len(src)) |-> IF i <= Len(src) THEN "" ELSE FormatInt(src[i - Len(src)])]

\* InvoiceOptions.MarshalJSON
InvoiceOptionsMarshalJSON(no) ==
    Encode(JObj(
        OmitEmptyStr("asset", no.CryptoAsset)
        \o OmitEmptyStr("fiat", no.Fiat)
        \o OmitEmptyStr("invoice_ids", Join(MadeThenAppended(no.InvoiceIDs), ","))
        \o OmitEmptyStr("status", no.Status)
        \o OmitEmptyInt("offset", no.Offset)
        \o OmitEmptyInt("count", no.Count)))

\* errs = append(errs, errors.New(msg)) when cond
When(cond, msg) == IF cond THEN <<msg>> ELSE <<>>

\* a slip: the first error alone is returned
JoinedFirstOnly(errs) == IF Len(errs) = 0 THEN Nil ELSE ErrorsJoin(<<errs[1]>>)

\* nil when nothing was appended, errors.Join(errs...) otherwise
Joined(errs) == IF Len(errs) = 0 THEN Nil ELSE ErrorsJoin(errs)


\* a slip: the fields of the other currency type are asked for
validateNewInvoiceSwapped(in) ==
    Joined(
        When(Len(in.CurrencyType) = 0, "CurrencyType cannot be empty")
        \o When(in.CurrencyType = Fiat /\ Len(in.CryptoAsset) = 0,
                "CryptoAsset cannot be empty")
        \o When(in.CurrencyType = Crypto /\ Len(in.AcceptedCryptoAssets) = 0,
                "AcceptedCryptoAssets cannot be empty")
        \o When(in.CurrencyType = Crypto /\ Len(in.Fiat) = 0, "FiatCurrency cannot be empty")
        \o When(Len(in.Amount) = 0, "Amount cannot be empty")
        \o When(Len(in.PaidBtnName) # 0 /\ Len(in.PaidBtnUrl) = 0,
                "PaidBtnUrl cannot be empty")
        \o When(Len(in.Payload) > 4096, "Payload should not exceed 4096 characters")
        \o When(in.ExpiresIn # 0 /\ (in.ExpiresIn < 1 \/ in.ExpiresIn > 2678400),
                "expiration time should be within 1-2678400 second range"))

\* a slip: the button's URL asks for a name, not the name for a URL
validateNewInvoiceUrlFirst(in) ==
    Joined(
        When(Len(in.CurrencyType) = 0, "CurrencyType cannot be empty")
        \o When(in.CurrencyType = Crypto /\ Len(in.CryptoAsset) = 0,
                "CryptoAsset cannot be empty")
        \o When(in.CurrencyType = Fiat /\ Len(in.AcceptedCryptoAssets) = 0,
                "AcceptedCryptoAssets cannot be empty")
        \o When(in.CurrencyType = Fiat /\ Len(in.Fiat) = 0, "FiatCurrency cannot be empty")
        \o When(Len(in.Amount) = 0, "Amount cannot be empty")
        \o When(Len(in.PaidBtnUrl) # 0 /\ Len(in.PaidBtnName) = 0,
                "PaidBtnUrl cannot be empty")
        \o When(Len(in.Payload) > 4096, "Payload should not exceed 4096 characters")
        \o When(in.ExpiresIn # 0 /\ (in.ExpiresIn < 1 \/ in.ExpiresIn > 2678400),
                "expiration time should be within 1-2678400 second range"))

validateNewInvoice(in) ==
    Joined(
        When(Len(in.CurrencyType) = 0, "CurrencyType cannot be empty")
        \o When(in.CurrencyType = Crypto /\ Len(in.CryptoAsset) = 0,
                "CryptoAsset cannot be empty")
        \o When(in.CurrencyType = Fiat /\ Len(in.AcceptedCryptoAssets) = 0,
                "AcceptedCryptoAssets cannot be empty")
        \o When(in.CurrencyType = Fiat /\ Len(in.Fiat) = 0, "FiatCurrency cannot be empty")
        \o When(Len(in.Amount) = 0, "Amount cannot be empty")
        \o When(Len(in.PaidBtnName) # 0 /\ Len(in.PaidBtnUrl) = 0,
                "PaidBtnUrl cannot be empty")
        \o When(Len(in.Payload) > 4096, "Payload should not exceed 4096 characters")
        \o When(in.ExpiresIn # 0 /\ (in.ExpiresIn < 1 \/ in.ExpiresIn > 2678400),
                "expiration time should be within 1-2678400 second range"))

\* a slip: a count left at zero is out of range too
validateInvoiceOptionsNoDefault(inop) ==
    Joined(
        When(inop.Offset < 0, "Offset cannot be less than 0")
        \o When(inop.Count < 1 \/ inop.Count > 1000,
                "Count needs to be within 1-1000 record range"))

validateInvoiceOptions(inop) ==
    Joined(
        When(inop.Offset < 0, "Offset cannot be less than 0")
        \o When(inop.Count # 0 /\ (inop.Count < 1 \/ inop.Count > 1000),
                "Count needs to be within 1-1000 record range"))

(***************************************************************************)
(* Checks.                                                                 *)
(***************************************************************************)
\* NewCheck{}
NewCheckZero == [CryptoAsset |-> "", Amount |-> "", PinToUserID |-> 0, PinToUsername |-> ""]

\* json.Marshal(nc) by the tags of NewCheck
NewCheckMarshal(nc) ==
    Encode(JObj(
        Always("asset", JStr(nc.CryptoAsset))
        \o Always("amount", JStr(nc.Amount))
        \o OmitEmptyInt("pin_to_user_id", nc.PinToUserID)
        \o OmitEmptyStr("pin_to_username", nc.PinToUsername)))

\* CheckOptions{}
CheckOptionsZero ==
    [CryptoAsset |-> "", CheckIDs |-> <<>>, Status |-> "", Offset |-> 0, Count |-> 0]

\* CheckOptions.MarshalJSON
CheckOptionsMarshalJSON(co) ==
    Encode(JObj(
        OmitEmptyStr("asset", co.CryptoAsset)
        \o OmitEmptyStr("check_ids", Join(MadeThenAppended(co.CheckIDs), ","))
        \o OmitEmptyStr("status", co.Status)
        \o OmitEmptyInt("offset", co.Offset)
        \o OmitEmptyInt("count", co.Count)))

validateNewCheck(nc) ==
    Joined(
        When(Len(nc.CryptoAsset) = 0, "CryptoAsset cannot be empty")
        \o When(Len(nc.Amount) = 0, "Amount cannot be empty"))

validateCheckOptions(ckops) ==
    Joined(
        When(ckops.Offset < 0, "Offset cannot be less than 0")
        \o When(ckops.Count # 0 /\ (ckops.Count < 1 \/ ckops.Count > 1000),
                "Count needs to be within 1-1000 record range"))

(***************************************************************************)
(* Transfers.                                                              *)
(***************************************************************************)
\* NewTransfer{}
NewTransferZero ==
    [UserID |-> 0, CryptoAsset |-> "", Amount |-> "", SpendID |-> "", Comment |-> "",
     DisableSendNotification |-> FALSE]

\* json.Marshal(nt) by the tags of NewTransfer
NewTransferMarshal(nt) ==
    Encode(JObj(
        Always("user_id", JNum(nt.UserID))
        \o Always("asset", JStr(nt.CryptoAsset))
        \o Always("amount", JStr(nt.Amount))
        \o Always("spend_id", JStr(nt.SpendID))
        \o OmitEmptyStr("comment", nt.Comment)
        \o Always("disable_send_notification", JBool(nt.DisableSendNotification))))

\* TransferOptions{}
TransferOptionsZero ==
    [CryptoAsset |-> "", TransferIDs |-> <<>>, SpendID |-> "", Offset |-> 0, Count |-> 0]

\* TransferOptions.MarshalJSON
TransferOptionsMarshalJSON(to) ==
    Encode(JObj(
        OmitEmptyStr("asset", to.CryptoAsset)
        \o OmitEmptyStr("transfer_ids", Join(MadeThenAppended(to.TransferIDs), ","))
        \o OmitEmptyStr("spend_id", to.SpendID)
        \o OmitEmptyInt("offset", to.Offset)
        \o OmitEmptyInt("count", to.Count)))

validateNewTransfer(nt) ==
    Joined(
        When(Len(nt.CryptoAsset) = 0, "CryptoAsset cannot be empty")
        \o When(Len(nt.SpendID) = 0, "SpendID cannot be empty")
        \o When(Len(nt.SpendID) > 64, "SpendID cannot exceed 64 characters")
        \o When(Len(nt.Comment) > 1024, "Comment cannot exceed 1024 characters"))

validateTransferOptions(trops) ==
    Joined(
        When(Len(trops.SpendID) > 64, "SpendID cannot exceed 64 characters")
        \o When(trops.Offset < 0, "Offset cannot be less than 0")
        \o When(trops.Count # 0 /\ (trops.Count < 1 \/ trops.Count > 1000),
                "Count needs to be within 1-1000 record range"))

(***************************************************************************)
(* Application statistics.                                                 *)
(***************************************************************************)
\* AppStatsOptions{}
AppStatsOptionsZero == [StartAt |-> ZeroTime, EndAt |-> ZeroTime]

\* AppStatsOptions.MarshalJSON
AppStatsOptionsMarshalJSON(aso) ==
    Encode(JObj(
        Always("start_at", JStr(FormatRFC3339(aso.StartAt)))
        \o Always("end_at", JStr(FormatRFC3339(aso.EndAt)))))

\* json.Marshal(struct{ InvoiceID int64 `json:"invoice_id"` }{id}) and its like
IdMarshal(key, id) == Encode(JObj(Always(key, JNum(id))))

(***************************************************************************)
(* The transport. What cb.client.Do and the read of the response's body    *)
(* give is the answer of the transport: an error of Do, an error of the    *)
(* read, or a status and a body.                                           *)
(***************************************************************************)
DoFailed(e) == [kind |-> "do", err |-> e, status |-> 0, body |-> <<>>]
ReadFailed(e) == [kind |-> "read", err |-> e, status |-> 200, body |-> <<>>]
Responded(status, body) == [kind |-> "response", err |-> Nil, status |-> status, body |-> body]
NoAnswer == [kind |-> "none", err |-> Nil, status |-> 0, body |-> <<>>]

\* the io.Reader handed to makeRequest: nil, or bytes.NewReader(data)
NilReader == [nil |-> TRUE, data |-> <<>>]
NewReader(data) == [nil |-> FALSE, data |-> data]

\* url.Parse fails on a URL whose first colon has no scheme before it
URLParses(u) == u # BadEndpoint

\* url.JoinPath(base, elem): [url, err]
JoinPath(base, elem) ==
    IF URLParses(base) THEN [url |-> base \o elem, err |-> Nil]
    ELSE [url |-> "", err |-> URLError]

\* the *http.Request makeRequest builds
NewRequest(c, method, url, r) ==
    [Method |-> method, URL |-> url, Body |-> r,
     Header |-> [Token |-> c.token, ContentType |-> "application/json"]]

\* a slip: a failed Do is tried once more
makeRequestRetrying(c, method, url, r, answer) ==
    LET request == NewRequest(c, method, url, r)
    IN  IF ~URLParses(url)
        THEN [body |-> <<>>, err |-> URLError, steps |-> <<"NewRequest">>, reqs |-> <<>>]
        ELSE IF answer.kind = "do"
        THEN [body |-> <<>>, err |-> answer.err, steps |-> <<"NewRequest", "Do", "Do">>,
              reqs |-> <<request, request>>]
        ELSE IF answer.kind = "read"
        THEN [body |-> <<>>, err |-> answer.err, steps |-> <<"NewRequest", "Do", "ReadAll">>,
              reqs |-> <<request>>]
        ELSE [body |-> answer.body, err |-> Nil, steps |-> <<"NewRequest", "Do", "ReadAll">>,
              reqs |-> <<request>>]

\* a slip: a status of 400 or more is an error of its own
makeRequestChecksStatus(c, method, url, r, answer) ==
    LET request == NewRequest(c, method, url, r)
    IN  IF ~URLParses(url)
        THEN [body |-> <<>>, err |-> URLError, steps |-> <<"NewRequest">>, reqs |-> <<>>]
        ELSE IF answer.kind = "do"
        THEN [body |-> <<>>, err |-> answer.err, steps |-> <<"NewRequest", "Do">>,
              reqs |-> <<request>>]
        ELSE IF answer.kind = "response" /\ answer.status >= 400
        THEN [body |-> <<>>, err |-> ErrorsNew("unexpected status"),
              steps |-> <<"NewRequest", "Do">>, reqs |-> <<request>>]
        ELSE IF answer.kind = "read"
        THEN [body |-> <<>>, err |-> answer.err, steps |-> <<"NewRequest", "Do", "ReadAll">>,
              reqs |-> <<request>>]
        ELSE [body |-> answer.body, err |-> Nil, steps |-> <<"NewRequest", "Do", "ReadAll">>,
              reqs |-> <<request>>]

\* makeRequest(method, url, r) on client c under the transport's answer:
\* the body and the error it returns, the calls it made in order (steps)
\* and the requests it gave to cb.client.Do (reqs)
makeRequest(c, method, url, r, answer) ==
    LET request == NewRequest(c, method, url, r)
    IN  IF ~URLParses(url)
        THEN [body |-> <<>>, err |-> URLError, steps |-> <<"NewRequest">>, reqs |-> <<>>]
        ELSE IF answer.kind = "do"
        THEN [body |-> <<>>, err |-> answer.err, steps |-> <<"NewRequest", "Do">>,
              reqs |-> <<request>>]
        ELSE IF answer.kind = "read"
        THEN [body |-> <<>>, err |-> answer.err, steps |-> <<"NewRequest", "Do", "ReadAll">>,
              reqs |-> <<request>>]
        ELSE [body |-> answer.body, err |-> Nil, steps |-> <<"NewRequest", "Do", "ReadAll">>,
              reqs |-> <<request>>]

(***************************************************************************)
(* The API operations. What an operation returns is val and err; steps are *)
(* the calls it made, in order, and reqs the requests it gave to the       *)
(* transport.                                                              *)
(***************************************************************************)
Returned(val, err, steps, reqs) == [val |-> val, err |-> err, steps |-> steps, reqs |-> reqs]

\* a slip: ok is looked at before the error of the decode
ExchangeOkFirst(c, method, path, r, t, answer) ==
    LET u == JoinPath(c.endpoint, path)
        m == makeRequest(c, method, u.url, r, answer)
        d == Unmarshal(m.body, response(t))
        built == <<"JoinPath">>
        sent == built \o (IF r.nil THEN <<>> ELSE <<"Marshal">>) \o m.steps
        decoded == sent \o <<"Unmarshal">>
    IN  IF u.err # Nil THEN Returned(Zero(t), u.err, built, <<>>)
        ELSE IF m.err # Nil THEN Returned(Zero(t), m.err, sent, m.reqs)
        ELSE IF ~d.val.Ok THEN Returned(Zero(t), ErrorsNewRaw(d.val.Error), decoded, m.reqs)
        ELSE IF d.err THEN Returned(Zero(t), JSONError, decoded, m.reqs)
        ELSE Returned(d.val.Result, Nil, decoded, m.reqs)

\* a slip: the result of the envelope is not returned
ExchangeResultDropped(c, method, path, r, t, answer) ==
    LET u == JoinPath(c.endpoint, path)
        m == makeRequest(c, method, u.url, r, answer)
        d == Unmarshal(m.body, response(t))
        built == <<"JoinPath">>
        sent == built \o (IF r.nil THEN <<>> ELSE <<"Marshal">>) \o m.steps
        decoded == sent \o <<"Unmarshal">>
    IN  IF u.err # Nil THEN Returned(Zero(t), u.err, built, <<>>)
        ELSE IF m.err # Nil THEN Returned(Zero(t), m.err, sent, m.reqs)
        ELSE IF d.err THEN Returned(Zero(t), JSONError, decoded, m.reqs)
        ELSE IF ~d.val.Ok THEN Returned(Zero(t), ErrorsNewRaw(d.val.Error), decoded, m.reqs)
        ELSE Returned(Zero(t), Nil, decoded, m.reqs)

\* a slip: with ok=false the result of the envelope is returned beside the
\* error
ExchangeKeepsResult(c, method, path, r, t, answer) ==
    LET u == JoinPath(c.endpoint, path)
        m == makeRequest(c, method, u.url, r, answer)
        d == Unmarshal(m.body, response(t))
        built == <<"JoinPath">>
        sent == built \o (IF r.nil THEN <<>> ELSE <<"Marshal">>) \o m.steps
        decoded == sent \o <<"Unmarshal">>
    IN  IF u.err # Nil THEN Returned(Zero(t), u.err, built, <<>>)
        ELSE IF m.err # Nil THEN Returned(Zero(t), m.err, sent, m.reqs)
        ELSE IF d.err THEN Returned(Zero(t), JSONError, decoded, m.reqs)
        ELSE IF ~d.val.Ok THEN Returned(d.val.Result, ErrorsNewRaw(d.val.Error), decoded, m.reqs)
        ELSE Returned(d.val.Result, Nil, decoded, m.reqs)

\* What every operation does once its request is valid: build the URL,
\* send the request (r holds the marshalled descriptor, if there is one),
\* decode the body into a response[T], return the API's error when ok is
\* false and the result otherwise.
Exchange(c, method, path, r, t, answer) ==
    LET u == JoinPath(c.endpoint, path)
        m == makeRequest(c, method, u.url, r, answer)
        d == Unmarshal(m.body, response(t))
        built == <<"JoinPath">>
        sent == built \o (IF r.nil THEN <<>> ELSE <<"Marshal">>) \o m.steps
        decoded == sent \o <<"Unmarshal">>
    IN  IF u.err # Nil THEN Returned(Zero(t), u.err, built, <<>>)
        ELSE IF m.err # Nil THEN Returned(Zero(t), m.err, sent, m.reqs)
        ELSE IF d.err THEN Returned(Zero(t), JSONError, decoded, m.reqs)
        ELSE IF ~d.val.Ok THEN Returned(Zero(t), ErrorsNewRaw(d.val.Error), decoded, m.reqs)
        ELSE Returned(d.val.Result, Nil, decoded, m.reqs)

\* the operation validated its request first
Validated(r) == [r EXCEPT !.steps = <<"validate">> \o @]

\* what an operation returns when validation fails
Invalid(zero, verr) == Returned(zero, verr, <<"validate">>, <<>>)

\* res.Result.Items for res.Result
Items(r) == [r EXCEPT !.val = @.Items]

GetMeOf(c, answer) == Exchange(c, "GET", "/getMe", NilReader, TRaw, answer)

\* a slip: the request is sent, then validated
CreateInvoiceSendsFirst(c, in, answer) ==
    LET sent == Exchange(c, "GET", "/createInvoice", NewReader(NewInvoiceMarshalJSON(in)),
                         Invoice, answer)
        verr == validateNewInvoice(in)
    IN  IF verr # Nil
        THEN Returned(Zero(Invoice), verr, sent.steps \o <<"validate">>, sent.reqs)
        ELSE [sent EXCEPT !.steps = @ \o <<"validate">>]

CreateInvoiceOf(c, in, answer) ==
    LET verr == validateNewInvoice(in)
    IN  IF verr # Nil THEN Invalid(Zero(Invoice), verr)
        ELSE Validated(Exchange(c, "GET", "/createInvoice",
                                NewReader(NewInvoiceMarshalJSON(in)), Invoice, answer))

DeleteInvoiceOf(c, id, answer) ==
    Exchange(c, "POST", "/deleteInvoice", NewReader(IdMarshal("invoice_id", id)), TBool, answer)

GetInvoicesOf(c, inop, answer) ==
    LET verr == validateInvoiceOptions(inop)
    IN  IF verr # Nil THEN Invalid(<<>>, verr)
        ELSE Validated(Items(Exchange(c, "POST", "/getInvoices",
                                      NewReader(InvoiceOptionsMarshalJSON(inop)),
                                      ItemsOf(Invoice), answer)))

CreateCheckOf(c, nc, answer) ==
    LET verr == validateNewCheck(nc)
    IN  IF verr # Nil THEN Invalid(Zero(Check), verr)
        ELSE Validated(Exchange(c, "GET", "/createCheck", NewReader(NewCheckMarshal(nc)),
                                Check, answer))

DeleteCheckOf(c, id, answer) ==
    Exchange(c, "POST", "/deleteCheck", NewReader(IdMarshal("check_id", id)), TBool, answer)

GetChecksOf(c, ckops, answer) ==
    LET verr == validateCheckOptions(ckops)
    IN  IF verr # Nil THEN Invalid(<<>>, verr)
        ELSE Validated(Items(Exchange(c, "POST", "/getChecks",
                                      NewReader(CheckOptionsMarshalJSON(ckops)),
                                      ItemsOf(Check), answer)))

CreateTransferOf(c, nt, answer) ==
    LET verr == validateNewTransfer(nt)
    IN  IF verr # Nil THEN Invalid(Zero(Transfer), verr)
        ELSE Validated(Exchange(c, "GET", "/transfer", NewReader(NewTransferMarshal(nt)),
                                Transfer, answer))

GetTransfersOf(c, trops, answer) ==
    LET verr == validateTransferOptions(trops)
    IN  IF verr # Nil THEN Invalid(<<>>, verr)
        ELSE Validated(Items(Exchange(c, "POST", "/getTransfers",
                                      NewReader(TransferOptionsMarshalJSON(trops)),
                                      ItemsOf(Transfer), answer)))

GetBalanceOf(c, answer) == Exchange(c, "GET", "/getBalance", NilReader, TSlice(Balance), answer)

GetExchangeRatesOf(c, answer) ==
    Exchange(c, "GET", "/getExchangeRates", NilReader, TSlice(ExchangeRate), answer)

GetAppStatsOf(c, asops, answer) ==
    Exchange(c, "POST", "/getStats", NewReader(AppStatsOptionsMarshalJSON(asops)),
             AppStats, answer)

(***************************************************************************)
(* What the API answers: results of each shape, as JSON and as the Go      *)
(* value the JSON stands for.                                              *)
(***************************************************************************)
InvoiceJSON(id) ==
    JObj(<< <<"invoice_id", JNum(id)>>, <<"hash", JStr("h")>>,
            <<"currency_type", JStr("crypto")>>, <<"asset", JStr("TON")>>,
            <<"amount", JStr("1")>>, <<"status", JStr("active")>>,
            <<"allow_comments", JBool(TRUE)>> >>)

InvoiceOf(id) ==
    [Zero(Invoice) EXCEPT !.ID = id, !.Hash = "h", !.CurrencyType = "crypto",
                          !.CryptoAsset = "TON", !.Amount = "1", !.Status = "active",
                          !.AllowComments = TRUE]

CheckJSON(id) ==
    JObj(<< <<"check_id", JNum(id)>>, <<"hash", JStr("h")>>, <<"asset", JStr("TON")>>,
            <<"amount", JStr("1")>>, <<"status", JStr("active")>> >>)

CheckOf(id) ==
    [Zero(Check) EXCEPT !.ID = id, !.Hash = "h", !.CryptoAsset = "TON", !.Amount = "1",
                        !.Status = "active"]

TransferJSON(id) ==
    JObj(<< <<"transfer_id", JNum(id)>>, <<"spend_id", JStr("s")>>, <<"user_id", JNum(7)>>,
            <<"asset", JStr("TON")>>, <<"amount", JStr("1")>>,
            <<"status", JStr("completed")>> >>)

TransferOf(id) ==
    [Zero(Transfer) EXCEPT !.ID = id, !.SpendID = "s", !.UserID = 7, !.CryptoAsset = "TON",
                           !.Amount = "1", !.Status = "completed"]

AppStatsJSON ==
    JObj(<< <<"volume", JNum(5)>>, <<"conversion", JNum(1)>>,
            <<"unique_users_count", JNum(2)>>, <<"created_invoice_count", JNum(3)>>,
            <<"paid_invoice_count", JNum(1)>>, <<"start_at", JStr("a")>>,
            <<"end_at", JStr("b")>> >>)

AppStatsOf ==
    [Volume |-> 5, Conversion |-> 1, UniqueUsers |-> 2, CreatedInvoices |-> 3,
     PaidInvoices |-> 1, StartAt |-> "a", EndAt |-> "b"]

BalanceJSON(asset) ==
    JObj(<< <<"currency_code", JStr(asset)>>, <<"available", JStr("1")>>,
            <<"onhold", JStr("0")>> >>)

BalanceOf(asset) == [CryptoAsset |-> asset, Available |-> "1", OnHold |-> "0"]

ExchangeRateJSON(source) ==
    JObj(<< <<"is_valid", JBool(TRUE)>>, <<"is_crypto", JBool(TRUE)>>,
            <<"is_fiat", JBool(FALSE)>>, <<"source", JStr(source)>>,
            <<"target", JStr("USD")>>, <<"rate", JStr("2")>> >>)

ExchangeRateOf(source) ==
    [IsValid |-> TRUE, IsCrypto |-> TRUE, IsFiat |-> FALSE, Source |-> source,
     Target |-> "USD", Rate |-> "2"]

\* what getMe tells about the application
MeJSON == JObj(<< <<"app_id", JNum(1)>>, <<"name", JStr("x")>> >>)

ItemsJSON(items) == JObj(<< <<"items", JArr(items)>> >>)

\* lists of ids: none, one, two of them in either order
IdLists ==
    {<<>>} \cup {<<i>> : i \in 1..MaxId}
    \cup {l \in {<<i, j>> : i \in 1..MaxId, j \in 1..MaxId} : l[1] # l[2]}

\* the pairs of distinct ids in descending order
Descending == {l \in IdLists : Len(l) = 2 /\ l[1] > l[2]}

Map(ToJSON(_), ids) == [i \in 1..Len(ids) |-> ToJSON(ids[i])]

\* {"ok":true,"result":R}
OkEnvelope(result) == JObj(<< <<"ok", JBool(TRUE)>>, <<"result", result>> >>)

\* {"ok":false,"error":E} and the members that follow
ErrorEnvelope(error, more) ==
    JObj(<< <<"ok", JBool(FALSE)>>, <<"error", error>> >> \o more)

ErrorObject == JObj(<< <<"code", JNum(400)>>, <<"name", JStr("x")>> >>)
ApiErrors == {ErrorObject, JStr("x")}

\* each result the API gives with ok=true: the operation, R, and the Go
\* value the operation is to return for it
Results ==
    {<<"GetMe", MeJSON, Encode(MeJSON)>>}
    \cup {<<"CreateInvoice", InvoiceJSON(i), InvoiceOf(i)>> : i \in 1..MaxId}
    \cup {<<"DeleteInvoice", JBool(b), b>> : b \in BOOLEAN}
    \cup {<<"GetInvoices", ItemsJSON(Map(InvoiceJSON, l)), Map(InvoiceOf, l)>> : l \in IdLists}
    \cup {<<"CreateCheck", CheckJSON(i), CheckOf(i)>> : i \in 1..MaxId}
    \cup {<<"DeleteCheck", JBool(b), b>> : b \in BOOLEAN}
    \cup {<<"GetChecks", ItemsJSON(Map(CheckJSON, l)), Map(CheckOf, l)>> :
            l \in {<<>>} \cup Descending}
    \cup {<<"CreateTransfer", TransferJSON(i), TransferOf(i)>> : i \in 1..MaxId}
    \cup {<<"GetTransfers", ItemsJSON(Map(TransferJSON, l)), Map(TransferOf, l)>> :
            l \in {<<>>} \cup Descending}
    \cup {<<"GetBalance", JArr(<<BalanceJSON("TON"), BalanceJSON("BTC")>>),
            <<BalanceOf("TON"), BalanceOf("BTC")>> >>}
    \cup {<<"GetExchangeRates", JArr(<<ExchangeRateJSON("TON")>>),
            <<ExchangeRateOf("TON")>> >>}
    \cup {<<"GetAppStats", AppStatsJSON, AppStatsOf>>}

OkBodies == {Encode(OkEnvelope(r[2])) : r \in Results}

\* ok=true without a result
BareOkBodies ==
    { Encode(JObj(<< <<"ok", JBool(TRUE)>> >>)),
      Encode(OkEnvelope(JNull)) }

\* what may stand in the result member of an envelope with ok=false:
\* nothing, null, a string, a number, an invoice
RejectedResults ==
    { <<>>,
      << <<"result", JNull>> >>,
      << <<"result", JStr("x")>> >>,
      << <<"result", JNum(1)>> >>,
      << <<"result", InvoiceJSON(1)>> >> }

\* envelopes with ok=false: each error with each result
ErrorEnvelopes == {ErrorEnvelope(e, r) : e \in ApiErrors, r \in RejectedResults}

\* ok=false without an error, and an error without ok
BareErrorBodies ==
    { Encode(JObj(<< <<"ok", JBool(FALSE)>> >>)),
      Encode(JObj(<< <<"error", ErrorObject>> >>)) }

ErrorBodies == {Encode(e) : e \in ErrorEnvelopes} \cup BareErrorBodies

\* envelopes that say nothing of ok, or nothing of the error: {}, null, a
\* result alone, ok=null, and ok=false with a null error
SilentBodies ==
    { Encode(JObj(<<>>)),
      Encode(JNull),
      Encode(JObj(<< <<"result", InvoiceJSON(1)>> >>)),
      Encode(JObj(<< <<"ok", JNull>>, <<"result", InvoiceJSON(1)>> >>)),
      Encode(ErrorEnvelope(JNull, <<>>)) }

\* bodies that are no JSON, or no envelope
MalformedBodies ==
    { <<>>,
      <<Junk>>,
      DropLast(Encode(OkEnvelope(InvoiceJSON(1)))),
      Encode(JObj(<< <<"ok", JStr("yes")>> >>)),
      Encode(JArr(<<JNum(1)>>)) }

ConnectionRefused == [kind |-> "urlError", msgs |-> <<"connection refused">>, raw |-> <<>>]
TimedOut == [kind |-> "urlError", msgs |-> <<"deadline exceeded">>, raw |-> <<>>]
UnexpectedEOF == [kind |-> "readError", msgs |-> <<"unexpected EOF">>, raw |-> <<>>]

\* the answers of the transport; the client never looks at the status
Answers ==
    {DoFailed(e) : e \in {ConnectionRefused, TimedOut}}
    \cup {ReadFailed(UnexpectedEOF)}
    \cup {Responded(200, b) : b \in OkBodies \cup BareOkBodies \cup MalformedBodies}
    \cup {Responded(400, b) : b \in ErrorBodies}
    \cup {Responded(200, b) : b \in SilentBodies}
    \cup {Responded(500, Encode(OkEnvelope(InvoiceJSON(1)))),
          Responded(200, Encode(ErrorEnvelope(ErrorObject, <<>>)))}

(***************************************************************************)
(* The requests the application makes.                                     *)
(***************************************************************************)
CryptoInvoice == [NewInvoiceZero EXCEPT !.CurrencyType = Crypto, !.CryptoAsset = "TON",
                                        !.Amount = "1"]
FiatInvoice ==
    [NewInvoiceZero EXCEPT !.CurrencyType = Fiat, !.Fiat = "USD", !.Amount = "1",
                           !.AcceptedCryptoAssets = <<"TON", "BTC">>,
                           !.Description = "d", !.ExpiresIn = 60]

ValidNewInvoices == {CryptoInvoice, FiatInvoice}

InvalidNewInvoices ==
    { NewInvoiceZero,
      [CryptoInvoice EXCEPT !.CryptoAsset = ""],
      [CryptoInvoice EXCEPT !.Amount = ""],
      [FiatInvoice EXCEPT !.AcceptedCryptoAssets = <<>>],
      [CryptoInvoice EXCEPT !.PaidBtnName = "callback"],
      [CryptoInvoice EXCEPT !.Payload = Repeat("p", 4097)],
      [CryptoInvoice EXCEPT !.ExpiresIn = 2678401] }

ValidInvoiceOptions ==
    { InvoiceOptionsZero,
      [InvoiceOptionsZero EXCEPT !.CryptoAsset = "TON", !.InvoiceIDs = <<1, 2>>, !.Count = 1000] }

InvalidInvoiceOptions ==
    { [InvoiceOptionsZero EXCEPT !.Offset = -1],
      [InvoiceOptionsZero EXCEPT !.Count = 1001] }

ValidNewChecks ==
    { [NewCheckZero EXCEPT !.CryptoAsset = "TON", !.Amount = "1"],
      [NewCheckZero EXCEPT !.CryptoAsset = "TON", !.Amount = "1", !.PinToUserID = 7] }

InvalidNewChecks == {NewCheckZero, [NewCheckZero EXCEPT !.CryptoAsset = "TON"]}

ValidCheckOptions ==
    {CheckOptionsZero, [CheckOptionsZero EXCEPT !.CheckIDs = <<2>>, !.Status = "active"]}

InvalidCheckOptions ==
    {[CheckOptionsZero EXCEPT !.Offset = -1], [CheckOptionsZero EXCEPT !.Count = -1]}

ValidTransfer ==
    [NewTransferZero EXCEPT !.UserID = 7, !.CryptoAsset = "TON", !.Amount = "1",
                            !.SpendID = "s"]

ValidNewTransfers == {ValidTransfer, [ValidTransfer EXCEPT !.Comment = "c"]}

InvalidNewTransfers ==
    { NewTransferZero,
      [ValidTransfer EXCEPT !.SpendID = Repeat("s", 65)],
      [ValidTransfer EXCEPT !.Comment = Repeat("c", 1025)] }

ValidTransferOptions ==
    { TransferOptionsZero,
      [TransferOptionsZero EXCEPT !.TransferIDs = <<1>>, !.SpendID = "s"] }

InvalidTransferOptions ==
    { [TransferOptionsZero EXCEPT !.SpendID = Repeat("s", 65)],
      [TransferOptionsZero EXCEPT !.Count = 1001] }

AppStatsOptionsSet ==
    { AppStatsOptionsZero,
      [StartAt |-> Date(2024, 1, 1), EndAt |-> Date(2024, 1, 31)],
      [StartAt |-> Date(2024, 1, 1), EndAt |-> ZeroTime] }

(***************************************************************************)
(* The state at rest: no request at the webhook, no call of the API.       *)
(***************************************************************************)
NoArg == 0
NoCall == [op |-> "none", arg |-> NoArg, n |-> 0, again |-> FALSE]
NoReturn == [op |-> "none", val |-> 0, err |-> Nil, steps |-> <<>>, reqs |-> <<>>]
NoRequest == [Header |-> <<>>, Body |-> [data |-> <<>>, fails |-> FALSE, consumed |-> FALSE]]

(***************************************************************************)
(* The webhook: a client, a request, one call of HandleUpdate.             *)
(***************************************************************************)
InitWebhook ==
    /\ cb \in Clients
    /\ req \in Requests
    /\ hu = HandleUpdateIdle
    /\ call = NoCall
    /\ net = [calls |-> 0, answer |-> NoAnswer]
    /\ ret = NoReturn

\* the HTTP server hands the request to HandleUpdate, once
HandleUpdate ==
    /\ ~hu.done
    /\ hu' = HandleUpdateOf(cb, req)
    /\ req' = [req EXCEPT !.Body.consumed = (hu'.reads > 0)]
    /\ UNCHANGED <<cb, call, net, ret>>

NextWebhook == HandleUpdate

Spec == InitWebhook /\ [][NextWebhook]_vars

(***************************************************************************)
(* The API: a client over a transport that answers every request of the    *)
(* behaviour alike, and up to MaxOps calls of the operations. call is the  *)
(* last call (again: it repeats the call before it), ret what it returned, *)
(* net.calls the requests the transport has been given so far.             *)
(***************************************************************************)
APIClients == {c \in Clients : c.token = TokenA /\ c.client = DefaultClient
                               /\ c.endpoint \in {Mainnet, BadEndpoint}}

InitAPI ==
    /\ cb \in APIClients
    /\ req = NoRequest
    /\ hu = HandleUpdateIdle
    /\ call = NoCall
    /\ net \in [calls : {0}, answer : Answers]
    /\ ret = NoReturn

\* the call op(arg) that follows the last one
Called(op, arg) ==
    [op |-> op, arg |-> arg, n |-> call.n + 1, again |-> (call.op = op /\ call.arg = arg)]

\* the transport once it was given the requests of r
Given(r) == [net EXCEPT !.calls = @ + Len(r.reqs)]

\* what the call of op returned
ReturnedBy(op, r) ==
    [op |-> op, val |-> r.val, err |-> r.err, steps |-> r.steps, reqs |-> r.reqs]

GetMe ==
    /\ call.n < MaxOps
    /\ LET r == GetMeOf(cb, net.answer)
       IN  /\ call' = Called("GetMe", NoArg)
           /\ net' = Given(r)
           /\ ret' = ReturnedBy("GetMe", r)
    /\ UNCHANGED <<cb, req, hu>>

CreateInvoice ==
    /\ call.n < MaxOps
    /\ \E in \in ValidNewInvoices \cup InvalidNewInvoices :
        LET r == CreateInvoiceOf(cb, in, net.answer)
        IN  /\ call' = Called("CreateInvoice", in)
            /\ net' = Given(r)
            /\ ret' = ReturnedBy("CreateInvoice", r)
    /\ UNCHANGED <<cb, req, hu>>

DeleteInvoice ==
    /\ call.n < MaxOps
    /\ \E id \in 1..MaxId :
        LET r == DeleteInvoiceOf(cb, id, net.answer)
        IN  /\ call' = Called("DeleteInvoice", id)
            /\ net' = Given(r)
            /\ ret' = ReturnedBy("DeleteInvoice", r)
    /\ UNCHANGED <<cb, req, hu>>

GetInvoices ==
    /\ call.n < MaxOps
    /\ \E inop \in ValidInvoiceOptions \cup InvalidInvoiceOptions :
        LET r == GetInvoicesOf(cb, inop, net.answer)
        IN  /\ call' = Called("GetInvoices", inop)
            /\ net' = Given(r)
            /\ ret' = ReturnedBy("GetInvoices", r)
    /\ UNCHANGED <<cb, req, hu>>

CreateCheck ==
    /\ call.n < MaxOps
    /\ \E nc \in ValidNewChecks \cup InvalidNewChecks :
        LET r == CreateCheckOf(cb, nc, net.answer)
        IN  /\ call' = Called("CreateCheck", nc)
            /\ net' = Given(r)
            /\ ret' = ReturnedBy("CreateCheck", r)
    /\ UNCHANGED <<cb, req, hu>>

DeleteCheck ==
    /\ call.n < MaxOps
    /\ \E id \in 1..MaxId :
        LET r == DeleteCheckOf(cb, id, net.answer)
        IN  /\ call' = Called("DeleteCheck", id)
            /\ net' = Given(r)
            /\ ret' = ReturnedBy("DeleteCheck", r)
    /\ UNCHANGED <<cb, req, hu>>

GetChecks ==
    /\ call.n < MaxOps
    /\ \E ckops \in ValidCheckOptions \cup InvalidCheckOptions :
        LET r == GetChecksOf(cb, ckops, net.answer)
        IN  /\ call' = Called("GetChecks", ckops)
            /\ net' = Given(r)
            /\ ret' = ReturnedBy("GetChecks", r)
    /\ UNCHANGED <<cb, req, hu>>

CreateTransfer ==
    /\ call.n < MaxOps
    /\ \E nt \in ValidNewTransfers \cup InvalidNewTransfers :
        LET r == CreateTransferOf(cb, nt, net.answer)
        IN  /\ call' = Called("CreateTransfer", nt)
            /\ net' = Given(r)
            /\ ret' = ReturnedBy("CreateTransfer", r)
    /\ UNCHANGED <<cb, req, hu>>

GetTransfers ==
    /\ call.n < MaxOps
    /\ \E trops \in ValidTransferOptions \cup InvalidTransferOptions :
        LET r == GetTransfersOf(cb, trops, net.answer)
        IN  /\ call' = Called("GetTransfers", trops)
            /\ net' = Given(r)
            /\ ret' = ReturnedBy("GetTransfers", r)
    /\ UNCHANGED <<cb, req, hu>>

GetBalance ==
    /\ call.n < MaxOps
    /\ LET r == GetBalanceOf(cb, net.answer)
       IN  /\ call' = Called("GetBalance", NoArg)
           /\ net' = Given(r)
           /\ ret' = ReturnedBy("GetBalance", r)
    /\ UNCHANGED <<cb, req, hu>>

GetExchangeRates ==
    /\ call.n < MaxOps
    /\ LET r == GetExchangeRatesOf(cb, net.answer)
       IN  /\ call' = Called("GetExchangeRates", NoArg)
           /\ net' = Given(r)
           /\ ret' = ReturnedBy("GetExchangeRates", r)
    /\ UNCHANGED <<cb, req, hu>>

GetAppStats ==
    /\ call.n < MaxOps
    /\ \E asops \in AppStatsOptionsSet :
        LET r == GetAppStatsOf(cb, asops, net.answer)
        IN  /\ call' = Called("GetAppStats", asops)
            /\ net' = Given(r)
            /\ ret' = ReturnedBy("GetAppStats", r)
    /\ UNCHANGED <<cb, req, hu>>

NextAPI ==
    \/ GetMe
    \/ CreateInvoice
    \/ DeleteInvoice
    \/ GetInvoices
    \/ CreateCheck
    \/ DeleteCheck
    \/ GetChecks
    \/ CreateTransfer
    \/ GetTransfers
    \/ GetBalance
    \/ GetExchangeRates
    \/ GetAppStats

SpecAPI == InitAPI /\ [][NextAPI]_vars

(***************************************************************************)
(* Claims about HandleUpdate.                                              *)
(***************************************************************************)
\* the header's value is the lowercase hex of HMAC-SHA256(SHA256(token), body)
GenuineSignature ==
    HeaderGet(req) = HexOf(HexLower, HMAC(Sum256(cb.token), Bytes(req.Body.data)))

\* what each body that decodes as an Update holds
Decodings ==
    {<<Encode(UpdateJSON(id, inv)), UpdateOf(id, inv)>> : id \in 1..MaxId, inv \in 0..MaxId}
    \cup { <<Encode(JNull), Zero(Update)>>,
           <<Encode(JObj(<<>>)), Zero(Update)>>,
           <<Encode(JObj(<< <<"x", JNum(1)>> >>)), Zero(Update)>>,
           <<Encode(JObj(<< <<"update_id", JNum(1)>>, <<"update_id", JNum(2)>> >>)),
             [Zero(Update) EXCEPT !.ID = 2]>> }

\* C1 as stated: whatever the body, a request with the genuine signature of
\* its body is accepted and returns an Update without error.
C1_AnyBodyAccepted ==
    (hu.done /\ ~req.Body.fails /\ GenuineSignature) => hu.err = Nil

\* C1, amended: for every token and every body that decodes as an Update, a
\* request with the genuine signature of its body returns, without error,
\* the Update whose fields are those of the body.
C1_GenuineAccepted ==
    hu.done =>
        \A d \in Decodings :
            (req.Body.data = d[1] /\ ~req.Body.fails /\ GenuineSignature)
                => (hu.err = Nil /\ hu.u = d[2])

\* a genuine delivery of update 1 about invoice 2 was accepted
C1_Witness ==
    /\ hu.done
    /\ req.Body.data = Encode(UpdateJSON(1, 2))
    /\ GenuineSignature
    /\ hu.err = Nil
    /\ hu.u.ID = 1
    /\ hu.u.Payload.ID = 2

\* C2 as stated: a signature header that is present and differs from the
\* MAC of the received body gives the verification failure, and the body is
\* never deserialized.
C2_PresentMismatchFailsVerification ==
    (hu.done /\ req.Header # <<>> /\ ~req.Body.fails /\ ~GenuineSignature)
        => (hu.err = VerifyFailed /\ hu.unmarshals = 0)

\* C2, amended: a signature header that is present and differs from the
\* MAC of the received body is rejected and the body is never deserialized:
\* with the verification failure when its value is not empty, with the
\* missing-signature error when its value is empty.
C2_MismatchRejected ==
    (hu.done /\ req.Header # <<>> /\ ~req.Body.fails /\ ~GenuineSignature)
        => /\ hu.err = IF Len(HeaderGet(req)) = 0 THEN SignatureMissing ELSE VerifyFailed
           /\ hu.unmarshals = 0
           /\ hu.u = Zero(Update)

\* the MAC of the body in upper-case hex was presented and rejected
C2_Witness ==
    /\ hu.done
    /\ ~req.Body.fails
    /\ HeaderGet(req) = HexOf(HexUpper, HMAC(Sum256(cb.token), Bytes(req.Body.data)))
    /\ ~GenuineSignature
    /\ req.Body.data \in GenuineBodies
    /\ hu.err = VerifyFailed

\* C3: with the header absent HandleUpdate returns the missing-signature
\* error; the body is not read, no MAC is computed, nothing is parsed.
C3_MissingSignature ==
    (hu.done /\ req.Header = <<>>)
        => /\ hu.err = SignatureMissing
           /\ hu.reads = 0
           /\ ~req.Body.consumed
           /\ hu.macs = 0
           /\ hu.unmarshals = 0
           /\ hu.u = Zero(Update)

\* a request without the header, carrying a genuine body, was handled
C3_Witness ==
    /\ hu.done
    /\ req.Header = <<>>
    /\ req.Body.data \in GenuineBodies
    /\ hu.err = SignatureMissing

\* C4: a body that cannot be deserialized, under its genuine signature,
\* gives the unparseable-update error; that error is neither the
\* missing-signature nor the verification error, and it is returned only
\* when the signature check has passed.
C4_UnparseableUpdate ==
    /\ UnmarshalFailed \notin {SignatureMissing, VerifyFailed, BodyUnread, Nil}
    /\ (hu.done /\ req.Body.data \in BrokenBodies /\ ~req.Body.fails /\ GenuineSignature)
            => (hu.err = UnmarshalFailed /\ hu.u = Zero(Update))
    /\ (hu.done /\ hu.err = UnmarshalFailed)
            => (GenuineSignature /\ hu.macs = 1 /\ hu.macOver = req.Body.data
                /\ hu.unmarshals = 1)

\* the empty body under its genuine signature was handled
C4_Witness ==
    /\ hu.done
    /\ req.Body.data = <<>>
    /\ GenuineSignature
    /\ hu.err = UnmarshalFailed

(***************************************************************************)
(* Claims about the API operations.                                        *)
(***************************************************************************)
\* the last call's request fails the validation rule of its operation
Rejected ==
    \/ call.op = "CreateInvoice" /\ call.arg \in InvalidNewInvoices
    \/ call.op = "GetInvoices" /\ call.arg \in InvalidInvoiceOptions
    \/ call.op = "CreateCheck" /\ call.arg \in InvalidNewChecks
    \/ call.op = "GetChecks" /\ call.arg \in InvalidCheckOptions
    \/ call.op = "CreateTransfer" /\ call.arg \in InvalidNewTransfers
    \/ call.op = "GetTransfers" /\ call.arg \in InvalidTransferOptions

\* the last call's request passed validation and its URL could be built
Passed == call.n > 0 /\ ~Rejected /\ cb.endpoint # BadEndpoint

\* the transport has a body for the last call
Answered == Passed /\ net.answer.kind = "response"

\* how often a step occurs among the steps of the last call
Times(step) == Cardinality({i \in 1..Len(ret.steps) : ret.steps[i] = step})

\* the steps before the first occurrence of step, all of them if there is none
Before(step) ==
    {ret.steps[i] : i \in {n \in 1..Len(ret.steps) :
                             \A m \in 1..n : ret.steps[m] # step}}

WithValidation ==
    {"CreateInvoice", "GetInvoices", "CreateCheck", "GetChecks", "CreateTransfer",
     "GetTransfers"}

\* C5: an operation with a validation rule validates before it serializes
\* its request; a request that fails validation returns the validation
\* error, nothing is serialized and the transport is not called.
C5_ValidationFirst ==
    /\ call.op \in WithValidation =>
            /\ ret.steps[1] = "validate"
            /\ Times("validate") = 1
            /\ Before("validate") \cap {"Marshal", "NewRequest", "Do"} = {}
    /\ Rejected =>
            /\ ret.err.kind = "joinError"
            /\ Len(ret.err.msgs) >= 1
            /\ ret.steps = <<"validate">>
            /\ ret.reqs = <<>>
            /\ net.calls < call.n

\* an invalid GetTransfers returned while the transport had a body to give
C5_Witness ==
    /\ call.op = "GetTransfers"
    /\ call.arg \in InvalidTransferOptions
    /\ cb.endpoint = Mainnet
    /\ net.answer.kind = "response"
    /\ net.answer.body \in OkBodies
    /\ ret.err.kind = "joinError"
    /\ net.calls = 0

\* C6: the error an operation returns is the first of: validation error,
\* transport error, decode error, API error. An invalid request returns
\* the validation error whatever the transport's answer; a transport
\* failure is returned and nothing is decoded; a body that does not decode
\* returns the decode error, which the API error of an envelope with
\* ok=false is not.
C6_ErrorPrecedence ==
    /\ Rejected => (ret.err.kind = "joinError" /\ ret.steps = <<"validate">>)
    /\ (Passed /\ net.answer.kind \in {"do", "read"}) =>
            (ret.err = net.answer.err /\ Times("Unmarshal") = 0)
    /\ (Answered /\ net.answer.body \in MalformedBodies) =>
            (ret.err = JSONError /\ Times("Unmarshal") = 1)
    /\ \A e \in ApiErrors :
        (Answered /\ net.answer.body = Encode(ErrorEnvelope(e, <<>>))) =>
            /\ ret.err = ErrorsNewRaw(Encode(e))
            /\ ret.err # JSONError
            /\ ret.err.kind # JSONError.kind

\* GetInvoices with valid options got a body that is no JSON
C6_Witness ==
    /\ call.op = "GetInvoices"
    /\ Answered
    /\ net.answer.body = <<Junk>>
    /\ ret.err = JSONError

\* C7: a call that passes validation and URL building gives the transport
\* exactly one request, whatever the outcome (a transport error, a decode
\* error, ok=false) and whether or not the call repeats the one before;
\* a call that does not pass gives it none; the transport's error is
\* returned as it is.
C7_OneRequestPerCall ==
    [][call'.n = call.n + 1 =>
            IF Passed'
            THEN /\ net'.calls = net.calls + 1
                 /\ Len(ret'.reqs) = 1
                 /\ Times("Do")' = 1
                 /\ net.answer.kind \in {"do", "read"} => ret'.err = net.answer.err
            ELSE /\ net'.calls = net.calls
                 /\ ret'.reqs = <<>>]_vars

\* CreateTransfer was called twice with the same transfer, the connection
\* was refused both times, and the transport was given two requests
C7_Witness ==
    /\ call.op = "CreateTransfer"
    /\ call.again
    /\ call.n = 2
    /\ net.answer = DoFailed(ConnectionRefused)
    /\ ret.err = ConnectionRefused
    /\ net.calls = 2

\* C8: when the body is an envelope with ok=true and a result of the shape
\* the operation expects, the operation returns that result (the items of
\* it, for the operations that list) and no error; GetMe returns the text
\* of the result.
C8_ResultReturned ==
    /\ \A r \in Results :
        (call.op = r[1] /\ Answered /\ net.answer.body = Encode(OkEnvelope(r[2]))) =>
            (ret.err = Nil /\ ret.val = r[3])
    /\ \A r \in Results :
        (call.op = "GetMe" /\ Answered /\ net.answer.body = Encode(OkEnvelope(r[2]))) =>
            (ret.err = Nil /\ ret.val = Encode(r[2]))

\* CreateInvoice returned the invoice of the envelope
C8_Witness ==
    /\ call.op = "CreateInvoice"
    /\ Answered
    /\ net.answer.body = Encode(OkEnvelope(InvoiceJSON(2)))
    /\ ret.err = Nil
    /\ ret.val.ID = 2
    /\ ret.val.CryptoAsset = "TON"

\* C9 as stated: for an envelope with ok=false and error E the operation
\* returns the API error holding the text of E, whatever the result
\* member holds: absent, null, or of another shape than the operation
\* expects.
C9_ErrorVerbatimWhateverResult ==
    \A e \in ApiErrors, r \in RejectedResults :
        (Answered /\ net.answer.body = Encode(ErrorEnvelope(e, r))) =>
            ret.err = ErrorsNewRaw(Encode(e))

\* CreateInvoice got ok=false, an error and a string for a result, and
\* returned the decode error
C9_Divergence ==
    /\ call.op = "CreateInvoice"
    /\ Answered
    /\ net.answer.body = Encode(ErrorEnvelope(ErrorObject, << <<"result", JStr("x")>> >>))
    /\ ret.err = JSONError

\* C10: GetInvoices, GetChecks and GetTransfers, given ok=true and the
\* result {items: [x1..xn]}, return the sequence [x1..xn]: as long, the
\* same elements, in the same order, without the carrier.
C10_ItemsInOrder ==
    /\ \A l \in IdLists :
        (call.op = "GetInvoices" /\ Answered
         /\ net.answer.body = Encode(OkEnvelope(ItemsJSON(Map(InvoiceJSON, l))))) =>
            /\ ret.err = Nil
            /\ Len(ret.val) = Len(l)
            /\ \A i \in 1..Len(l) : ret.val[i] = InvoiceOf(l[i])
    /\ \A l \in IdLists :
        (call.op = "GetChecks" /\ Answered
         /\ net.answer.body = Encode(OkEnvelope(ItemsJSON(Map(CheckJSON, l))))) =>
            /\ ret.err = Nil
            /\ Len(ret.val) = Len(l)
            /\ \A i \in 1..Len(l) : ret.val[i] = CheckOf(l[i])
    /\ \A l \in IdLists :
        (call.op = "GetTransfers" /\ Answered
         /\ net.answer.body = Encode(OkEnvelope(ItemsJSON(Map(TransferJSON, l))))) =>
            /\ ret.err = Nil
            /\ Len(ret.val) = Len(l)
            /\ \A i \in 1..Len(l) : ret.val[i] = TransferOf(l[i])

\* GetTransfers returned transfers 2 and 1, in the order of the items
C10_Witness ==
    /\ call.op = "GetTransfers"
    /\ Answered
    /\ net.answer.body = Encode(OkEnvelope(ItemsJSON(<<TransferJSON(2), TransferJSON(1)>>)))
    /\ ret.err = Nil
    /\ Len(ret.val) = 2
    /\ ret.val[1].ID = 2
    /\ ret.val[2].ID = 1

(***************************************************************************)
(* The requests of the validated operations, widely: a request the         *)
(* application may build is a base request with up to two of its fields    *)
(* set anew, to an empty value, a usual one, or one at or past a limit.    *)
(***************************************************************************)
\* the struct b with field v[1] set to v[2]
With(b, v) == [f \in DOMAIN b |-> IF f = v[1] THEN v[2] ELSE b[f]]

Varied(bases, settings) == {With(With(b, v), w) : b \in bases, v \in settings, w \in settings}

NewInvoiceSettings ==
    { <<"CurrencyType", "">>, <<"CurrencyType", Crypto>>, <<"CurrencyType", Fiat>>,
      <<"CurrencyType", "stars">>,
      <<"CryptoAsset", "">>, <<"CryptoAsset", "TON">>,
      <<"Fiat", "">>, <<"Fiat", "USD">>,
      <<"AcceptedCryptoAssets", <<>> >>, <<"AcceptedCryptoAssets", <<"TON">> >>,
      <<"AcceptedCryptoAssets", <<"BTC", "TON">> >>, <<"AcceptedCryptoAssets", <<"">> >>,
      <<"AcceptedCryptoAssets", <<"A,B", "TON">> >>,
      <<"AcceptedCryptoAssets", <<"", "TON">> >>,
      <<"Amount", "">>,
      <<"Description", Repeat("d", 1024)>>, <<"Description", Repeat("d", 1025)>>,
      <<"HiddenMessage", Repeat("h", 2048)>>, <<"HiddenMessage", Repeat("h", 2049)>>,
      <<"PaidBtnName", "callback">>, <<"PaidBtnUrl", "https://e.x">>,
      <<"Payload", Repeat("p", 4096)>>, <<"Payload", Repeat("p", 4097)>>,
      <<"AllowComments", TRUE>>,
      <<"ExpiresIn", -1>>, <<"ExpiresIn", 1>>, <<"ExpiresIn", 2678400>>,
      <<"ExpiresIn", 2678401>> }

AnyNewInvoice == Varied({NewInvoiceZero, CryptoInvoice, FiatInvoice}, NewInvoiceSettings)

ListSettings ==
    { <<"CryptoAsset", "TON">>, <<"Status", "active">>,
      <<"Offset", -1>>, <<"Offset", 0>>, <<"Offset", 1>>,
      <<"Count", -1>>, <<"Count", 0>>, <<"Count", 1>>, <<"Count", 1000>>,
      <<"Count", 1001>> }

AnyInvoiceOptions ==
    Varied({InvoiceOptionsZero},
           ListSettings \cup {<<"Fiat", "USD">>} \cup {<<"InvoiceIDs", l>> : l \in IdLists})

AnyCheckOptions ==
    Varied({CheckOptionsZero}, ListSettings \cup {<<"CheckIDs", l>> : l \in IdLists})

AnyTransferOptions ==
    Varied({TransferOptionsZero},
           (ListSettings \ {<<"Status", "active">>})
           \cup {<<"SpendID", Repeat("s", 64)>>, <<"SpendID", Repeat("s", 65)>>}
           \cup {<<"TransferIDs", l>> : l \in IdLists})

AnyNewCheck ==
    Varied({NewCheckZero} \cup ValidNewChecks,
           { <<"CryptoAsset", "">>, <<"CryptoAsset", "BTC">>, <<"Amount", "">>,
             <<"Amount", "2">>, <<"PinToUserID", 0>>, <<"PinToUserID", 9>>,
             <<"PinToUsername", "u">> })

AnyNewTransfer ==
    Varied({NewTransferZero} \cup ValidNewTransfers,
           { <<"UserID", 0>>, <<"UserID", 9>>, <<"CryptoAsset", "">>, <<"Amount", "">>,
             <<"SpendID", "">>, <<"SpendID", Repeat("s", 64)>>,
             <<"SpendID", Repeat("s", 65)>>,
             <<"Comment", "">>, <<"Comment", Repeat("c", 1024)>>,
             <<"Comment", Repeat("c", 1025)>>,
             <<"DisableSendNotification", TRUE>> })

(***************************************************************************)
(* One call of a validated operation with any of these requests, over a    *)
(* transport that refuses the connection or answers with an invoice.       *)
(***************************************************************************)
InitRequests ==
    /\ cb \in APIClients
    /\ req = NoRequest
    /\ hu = HandleUpdateIdle
    /\ call = NoCall
    /\ net \in [calls : {0},
                answer : {DoFailed(ConnectionRefused),
                          Responded(200, Encode(OkEnvelope(InvoiceJSON(1))))}]
    /\ ret = NoReturn

CallCreateInvoice ==
    /\ call.n = 0
    /\ \E in \in AnyNewInvoice :
        LET r == CreateInvoiceOf(cb, in, net.answer)
        IN  /\ call' = Called("CreateInvoice", in)
            /\ net' = Given(r)
            /\ ret' = ReturnedBy("CreateInvoice", r)
    /\ UNCHANGED <<cb, req, hu>>

CallGetInvoices ==
    /\ call.n = 0
    /\ \E inop \in AnyInvoiceOptions :
        LET r == GetInvoicesOf(cb, inop, net.answer)
        IN  /\ call' = Called("GetInvoices", inop)
            /\ net' = Given(r)
            /\ ret' = ReturnedBy("GetInvoices", r)
    /\ UNCHANGED <<cb, req, hu>>

CallCreateCheck ==
    /\ call.n = 0
    /\ \E nc \in AnyNewCheck :
        LET r == CreateCheckOf(cb, nc, net.answer)
        IN  /\ call' = Called("CreateCheck", nc)
            /\ net' = Given(r)
            /\ ret' = ReturnedBy("CreateCheck", r)
    /\ UNCHANGED <<cb, req, hu>>

CallGetChecks ==
    /\ call.n = 0
    /\ \E ckops \in AnyCheckOptions :
        LET r == GetChecksOf(cb, ckops, net.answer)
        IN  /\ call' = Called("GetChecks", ckops)
            /\ net' = Given(r)
            /\ ret' = ReturnedBy("GetChecks", r)
    /\ UNCHANGED <<cb, req, hu>>

CallCreateTransfer ==
    /\ call.n = 0
    /\ \E nt \in AnyNewTransfer :
        LET r == CreateTransferOf(cb, nt, net.answer)
        IN  /\ call' = Called("CreateTransfer", nt)
            /\ net' = Given(r)
            /\ ret' = ReturnedBy("CreateTransfer", r)
    /\ UNCHANGED <<cb, req, hu>>

CallGetTransfers ==
    /\ call.n = 0
    /\ \E trops \in AnyTransferOptions :
        LET r == GetTransfersOf(cb, trops, net.answer)
        IN  /\ call' = Called("GetTransfers", trops)
            /\ net' = Given(r)
            /\ ret' = ReturnedBy("GetTransfers", r)
    /\ UNCHANGED <<cb, req, hu>>

NextRequests ==
    \/ CallCreateInvoice
    \/ CallGetInvoices
    \/ CallCreateCheck
    \/ CallGetChecks
    \/ CallCreateTransfer
    \/ CallGetTransfers

SpecRequests == InitRequests /\ [][NextRequests]_vars

(***************************************************************************)
(* Claims about the requests the operations serialize and validate.        *)
(***************************************************************************)
\* the last call gave a request to the transport
Sent == call.n > 0 /\ Len(ret.reqs) > 0

\* the value of member key in the body of that request, "" when it has none
SentMember(key) ==
    LET ms == Parse(ret.reqs[1].Body.data).val.v
        at == {i \in 1..Len(ms) : ms[i][1] = key}
    IN  IF at = {} THEN "" ELSE ms[CHOOSE i \in at : TRUE][2].v

RECURSIVE CountOf(_, _)
\* how often the character ch occurs in the string s
CountOf(s, ch) ==
    IF Len(s) = 0 THEN 0
    ELSE (IF SubSeq(s, 1, 1) = ch THEN 1 ELSE 0) + CountOf(Tail(s), ch)

RECURSIVE Commas(_)
\* the texts, each but the first after a comma
Commas(texts) ==
    IF Len(texts) = 0 THEN ""
    ELSE IF Len(texts) = 1 THEN texts[1]
    ELSE Commas(SubSeq(texts, 1, Len(texts) - 1)) \o "," \o texts[Len(texts)]

Decimals(ids) == [i \in 1..Len(ids) |-> FormatInt(ids[i])]

WithList == {"CreateInvoice", "GetInvoices", "GetChecks", "GetTransfers"}

\* the list field of the last call's request: its member and its tokens
ListKey ==
    CASE call.op = "CreateInvoice" -> "accepted_assets"
      [] call.op = "GetInvoices" -> "invoice_ids"
      [] call.op = "GetChecks" -> "check_ids"
      [] call.op = "GetTransfers" -> "transfer_ids"

ListTexts ==
    CASE call.op = "CreateInvoice" -> call.arg.AcceptedCryptoAssets
      [] call.op = "GetInvoices" -> Decimals(call.arg.InvoiceIDs)
      [] call.op = "GetChecks" -> Decimals(call.arg.CheckIDs)
      [] call.op = "GetTransfers" -> Decimals(call.arg.TransferIDs)

\* C11: the list field of a serialized request is the texts of its tokens
\* joined by commas in their order: n - 1 commas for n tokens that hold
\* none, no comma in front and none at the end, and so the same text from
\* each of the four codecs for the same token texts.
C11_ListJoinedByCommas ==
    (Sent /\ call.op \in WithList) =>
        /\ SentMember(ListKey) = Commas(ListTexts)
        /\ (/\ Len(ListTexts) > 0
            /\ \A i \in 1..Len(ListTexts) :
                 Len(ListTexts[i]) > 0 /\ CountOf(ListTexts[i], ",") = 0)
            => CountOf(SentMember(ListKey), ",") = Len(ListTexts) - 1

\* GetInvoices of the invoices 1 and 2 asks for ",,1,2", while the accepted
\* assets BTC and TON of a new invoice are sent as "BTC,TON"
C11_Divergence ==
    /\ Sent
    /\ \/ /\ call.op = "GetInvoices"
          /\ call.arg.InvoiceIDs = <<1, 2>>
          /\ SentMember("invoice_ids") = ",,1,2"
       \/ /\ call.op = "GetChecks"
          /\ call.arg.CheckIDs = <<1, 2>>
          /\ SentMember("check_ids") = ",,1,2"
       \/ /\ call.op = "GetTransfers"
          /\ call.arg.TransferIDs = <<1, 2>>
          /\ SentMember("transfer_ids") = ",,1,2"

Rule(broken, msg) == IF broken THEN {msg} ELSE {}

\* the rules the request of the last call breaks, each by its message
Violations ==
    LET a == call.arg
        paged == Rule(a.Offset < 0, "Offset cannot be less than 0")
                 \cup Rule(a.Count < 0 \/ a.Count > 1000,
                           "Count needs to be within 1-1000 record range")
    IN  CASE call.op = "CreateInvoice" ->
               Rule(a.CurrencyType = "", "CurrencyType cannot be empty")
               \cup Rule(a.CurrencyType = Crypto /\ a.CryptoAsset = "",
                         "CryptoAsset cannot be empty")
               \cup Rule(a.CurrencyType = Fiat /\ a.AcceptedCryptoAssets = <<>>,
                         "AcceptedCryptoAssets cannot be empty")
               \cup Rule(a.CurrencyType = Fiat /\ a.Fiat = "", "FiatCurrency cannot be empty")
               \cup Rule(a.Amount = "", "Amount cannot be empty")
               \cup Rule(a.PaidBtnName # "" /\ a.PaidBtnUrl = "", "PaidBtnUrl cannot be empty")
               \cup Rule(Len(a.Payload) > 4096, "Payload should not exceed 4096 characters")
               \cup Rule(a.ExpiresIn < 0 \/ a.ExpiresIn > 2678400,
                         "expiration time should be within 1-2678400 second range")
          [] call.op = "CreateCheck" ->
               Rule(a.CryptoAsset = "", "CryptoAsset cannot be empty")
               \cup Rule(a.Amount = "", "Amount cannot be empty")
          [] call.op = "CreateTransfer" ->
               Rule(a.CryptoAsset = "", "CryptoAsset cannot be empty")
               \cup Rule(a.SpendID = "", "SpendID cannot be empty")
               \cup Rule(Len(a.SpendID) > 64, "SpendID cannot exceed 64 characters")
               \cup Rule(Len(a.Comment) > 1024, "Comment cannot exceed 1024 characters")
          [] call.op = "GetTransfers" ->
               paged \cup Rule(Len(a.SpendID) > 64, "SpendID cannot exceed 64 characters")
          [] call.op \in {"GetInvoices", "GetChecks"} -> paged

\* C12: validation reports every rule the request breaks at once: the error
\* returned holds one entry for each rule broken and none for a rule kept,
\* and a request that breaks no rule passes validation.
C12_AllViolationsReported ==
    (call.n > 0 /\ call.op \in WithValidation) =>
        IF Violations = {}
        THEN ret.err.kind # "joinError" /\ Len(ret.steps) > 1
        ELSE /\ ret.err.kind = "joinError"
             /\ {ret.err.msgs[i] : i \in 1..Len(ret.err.msgs)} = Violations
             /\ Len(ret.err.msgs) = Cardinality(Violations)

\* a new invoice reported for three rules at once; new transfers and
\* listings reported for two at once
C12_Witness ==
    /\ call.n > 0
    /\ \/ /\ call.op = "CreateInvoice"
          /\ Len(ret.err.msgs) = 3
          /\ Cardinality(Violations) = 3
       \/ /\ call.op = "CreateTransfer"
          /\ Len(ret.err.msgs) = 2
          /\ Cardinality(Violations) = 2

\* the last call was turned down by validation for the rule of msg (among
\* others, possibly), and nothing was sent
RejectedFor(msg) ==
    /\ ret.err.kind = "joinError"
    /\ \E i \in 1..Len(ret.err.msgs) : ret.err.msgs[i] = msg
    /\ ret.steps = <<"validate">>
    /\ Len(ret.reqs) = 0

\* the last call went past validation
Accepted == ret.err.kind # "joinError" /\ Len(ret.steps) > 1 /\ ret.steps[1] = "validate"

\* the new invoice in meets every rule documented for it
MeetsEveryRule(in) ==
    /\ \/ in.CurrencyType = Crypto /\ in.CryptoAsset # ""
       \/ in.CurrencyType = Fiat /\ in.Fiat # "" /\ in.AcceptedCryptoAssets # <<>>
    /\ in.Amount # ""
    /\ in.PaidBtnName # "" => in.PaidBtnUrl # ""
    /\ Len(in.Description) <= 1024
    /\ Len(in.HiddenMessage) <= 2048
    /\ Len(in.Payload) <= 4096
    /\ in.ExpiresIn \in 0..2678400

\* C13: a new invoice is turned down when its currency type is crypto and
\* its asset is empty, when its currency type is fiat and its fiat currency
\* or its accepted assets are empty, and when its currency type is empty; a
\* new invoice that meets every rule is accepted.
C13_Discriminator ==
    (call.n > 0 /\ call.op = "CreateInvoice") =>
        LET in == call.arg
        IN  /\ (in.CurrencyType = Crypto /\ in.CryptoAsset = "")
                => RejectedFor("CryptoAsset cannot be empty")
            /\ (in.CurrencyType = Fiat /\ in.Fiat = "")
                => RejectedFor("FiatCurrency cannot be empty")
            /\ (in.CurrencyType = Fiat /\ in.AcceptedCryptoAssets = <<>>)
                => RejectedFor("AcceptedCryptoAssets cannot be empty")
            /\ in.CurrencyType = "" => RejectedFor("CurrencyType cannot be empty")
            /\ MeetsEveryRule(in) => Accepted

\* a fiat invoice without fiat currency and accepted assets, turned down for
\* both; a crypto invoice that needs neither, accepted
C13_Witness ==
    /\ call.op = "CreateInvoice"
    /\ \/ /\ call.arg.CurrencyType = Fiat
          /\ call.arg.Fiat = ""
          /\ call.arg.AcceptedCryptoAssets = <<>>
          /\ RejectedFor("FiatCurrency cannot be empty")
          /\ RejectedFor("AcceptedCryptoAssets cannot be empty")
       \/ /\ call.arg.CurrencyType = Crypto
          /\ call.arg.Fiat = ""
          /\ call.arg.AcceptedCryptoAssets = <<>>
          /\ MeetsEveryRule(call.arg)
          /\ Accepted

\* the last call was turned down by validation and nothing was sent
TurnedDown ==
    /\ ret.err.kind = "joinError"
    /\ ret.steps = <<"validate">>
    /\ Len(ret.reqs) = 0
    /\ net.calls = 0

\* C14: the documented length caps are enforced before any network call:
\* CreateInvoice turns down a Description of more than 1024 characters, a
\* HiddenMessage of more than 2048 and a Payload of more than 4096,
\* CreateTransfer a SpendID of more than 64 and a Comment of more than 1024;
\* a field exactly at its cap is accepted.
C14_CapsEnforced ==
    /\ (call.n > 0 /\ call.op = "CreateInvoice") =>
        /\ Len(call.arg.Description) > 1024 => TurnedDown
        /\ Len(call.arg.HiddenMessage) > 2048 => TurnedDown
        /\ Len(call.arg.Payload) > 4096
            => TurnedDown /\ RejectedFor("Payload should not exceed 4096 characters")
        /\ (/\ MeetsEveryRule(call.arg)
            /\ \/ Len(call.arg.Description) = 1024
               \/ Len(call.arg.HiddenMessage) = 2048
               \/ Len(call.arg.Payload) = 4096) => Accepted
    /\ (call.n > 0 /\ call.op = "CreateTransfer") =>
        /\ Len(call.arg.SpendID) > 64
            => TurnedDown /\ RejectedFor("SpendID cannot exceed 64 characters")
        /\ Len(call.arg.Comment) > 1024
            => TurnedDown /\ RejectedFor("Comment cannot exceed 1024 characters")
        /\ (/\ Violations = {}
            /\ Len(call.arg.SpendID) = 64 \/ Len(call.arg.Comment) = 1024) => Accepted

\* a new invoice with a description of 1025 characters, or a hidden message
\* of 2049, is accepted and sent as it is
C14_Divergence ==
    /\ call.op = "CreateInvoice"
    /\ Sent
    /\ ret.err.kind # "joinError"
    /\ \/ Len(call.arg.Description) = 1025 /\ Len(SentMember("description")) = 1025
       \/ Len(call.arg.HiddenMessage) = 2049 /\ Len(SentMember("hidden_message")) = 2049

Listings == {"GetInvoices", "GetChecks", "GetTransfers"}

\* C15: a listing with a negative Offset is turned down with the error of
\* the offset rule and no network call, and so is one whose Count is neither
\* zero nor within 1..1000; Count 0, 1 and 1000 are accepted. CreateInvoice
\* turns down an ExpiresIn that is neither zero nor within 1..2678400 and
\* accepts 0, 1 and 2678400.
C15_NumericRanges ==
    /\ (call.n > 0 /\ call.op \in Listings) =>
        /\ call.arg.Offset < 0
            => TurnedDown /\ RejectedFor("Offset cannot be less than 0")
        /\ (call.arg.Count # 0 /\ call.arg.Count \notin 1..1000)
            => TurnedDown /\ RejectedFor("Count needs to be within 1-1000 record range")
        /\ (/\ call.arg.Count \in {0, 1, 1000}
            /\ call.arg.Offset >= 0
            /\ call.op = "GetTransfers" => Len(call.arg.SpendID) <= 64) => Accepted
    /\ (call.n > 0 /\ call.op = "CreateInvoice") =>
        /\ (call.arg.ExpiresIn # 0 /\ call.arg.ExpiresIn \notin 1..2678400)
            => /\ TurnedDown
               /\ RejectedFor("expiration time should be within 1-2678400 second range")
        /\ (call.arg.ExpiresIn \in {0, 1, 2678400} /\ MeetsEveryRule(call.arg)) => Accepted

\* GetInvoices at offset -1: the offset error and no network call
C15_Witness ==
    /\ call.op = "GetInvoices"
    /\ call.arg.Offset = -1
    /\ ret.err = ErrorsJoin(<<"Offset cannot be less than 0">>)
    /\ net.calls = 0

\* the messages of the error the last call returned
Reported == {ret.err.msgs[i] : i \in 1..Len(ret.err.msgs)}

\* C20: a new invoice with PaidBtnName set and PaidBtnUrl empty is turned
\* down; with PaidBtnName empty, PaidBtnUrl set or not, and with both set,
\* no violation about the button is raised.
C20_ButtonPair ==
    (call.n > 0 /\ call.op = "CreateInvoice") =>
        IF call.arg.PaidBtnName # "" /\ call.arg.PaidBtnUrl = ""
        THEN TurnedDown /\ RejectedFor("PaidBtnUrl cannot be empty")
        ELSE "PaidBtnUrl cannot be empty" \notin Reported

\* a name without a URL turned down for the button alone; a URL without a
\* name accepted
C20_Witness ==
    /\ call.op = "CreateInvoice"
    /\ \/ /\ call.arg.PaidBtnName = "callback"
          /\ call.arg.PaidBtnUrl = ""
          /\ ret.err = ErrorsJoin(<<"PaidBtnUrl cannot be empty">>)
          /\ TurnedDown
       \/ /\ call.arg.PaidBtnName = ""
          /\ call.arg.PaidBtnUrl = "https://e.x"
          /\ Accepted

(***************************************************************************)
(* The wire schema of the write requests, as a party that shares it reads  *)
(* them: the members by their json tags, accepted_assets split at commas.  *)
(***************************************************************************)
tempNewInvoice ==
    TStruct(<<
        F("CurrencyType", "currency_type", TString),
        F("CryptoAsset", "asset", TString),
        F("Fiat", "fiat", TString),
        F("AcceptedCryptoAssets", "accepted_assets", TString),
        F("Amount", "amount", TString),
        F("Description", "description", TString),
        F("HiddenMessage", "hidden_message", TString),
        F("PaidBtnName", "paid_btn_name", TString),
        F("PaidBtnUrl", "paid_btn_url", TString),
        F("Payload", "payload", TString),
        F("AllowComments", "allow_comments", TBool),
        F("AllowAnonymous", "allow_anonymous", TBool),
        F("ExpiresIn", "expires_in", TInt)
    >>)

NewCheck ==
    TStruct(<<
        F("CryptoAsset", "asset", TString),
        F("Amount", "amount", TString),
        F("PinToUserID", "pin_to_user_id", TInt),
        F("PinToUsername", "pin_to_username", TString)
    >>)

NewTransfer ==
    TStruct(<<
        F("UserID", "user_id", TInt),
        F("CryptoAsset", "asset", TString),
        F("Amount", "amount", TString),
        F("SpendID", "spend_id", TString),
        F("Comment", "comment", TString),
        F("DisableSendNotification", "disable_send_notification", TBool)
    >>)

RECURSIVE Pieces(_, _)
\* the pieces of s between its commas, after the piece begun as cur
Pieces(s, cur) ==
    IF Len(s) = 0 THEN <<cur>>
    ELSE IF SubSeq(s, 1, 1) = "," THEN <<cur>> \o Pieces(Tail(s), "")
    ELSE Pieces(Tail(s), cur \o SubSeq(s, 1, 1))

\* the list a comma-separated member stands for: none when it is absent
SplitList(s) == IF s = "" THEN <<>> ELSE Pieces(s, "")

\* the request the receiver reconstructs from the body of the last call
Received ==
    LET data == ret.reqs[1].Body.data
    IN  CASE call.op = "CreateInvoice" ->
               LET d == Unmarshal(data, tempNewInvoice)
               IN  [d EXCEPT !.val.AcceptedCryptoAssets = SplitList(@)]
          [] call.op = "CreateCheck" -> Unmarshal(data, NewCheck)
          [] call.op = "CreateTransfer" -> Unmarshal(data, NewTransfer)

Writes == {"CreateInvoice", "CreateCheck", "CreateTransfer"}

\* no accepted asset of the last call's new invoice holds a comma
NoCommaInAssets ==
    call.op = "CreateInvoice" =>
        \A i \in 1..Len(call.arg.AcceptedCryptoAssets) :
            CountOf(call.arg.AcceptedCryptoAssets[i], ",") = 0

\* C19 as stated: the body sent for a new invoice, check or transfer that
\* passed validation is read back by the wire schema as a request equal to
\* the original, its accepted assets in their order, provided no asset
\* symbol holds a comma.
C19_RoundTrip ==
    (Sent /\ call.op \in Writes /\ NoCommaInAssets) =>
        ~Received.err /\ Received.val = call.arg

\* C19: the body sent for a new invoice, check or transfer that passed
\* validation is read back by the wire schema as a request equal to the
\* original, its accepted assets in their order, provided no asset symbol
\* holds a comma and the accepted assets are not just one empty symbol.
C19_RoundTripButOneEmpty ==
    (/\ Sent
     /\ call.op \in Writes
     /\ NoCommaInAssets
     /\ call.op = "CreateInvoice" => call.arg.AcceptedCryptoAssets # <<"">>) =>
        ~Received.err /\ Received.val = call.arg

\* a fiat invoice payable in BTC and TON, in this order, read back as it was
C19_Witness ==
    /\ Sent
    /\ call.op = "CreateInvoice"
    /\ call.arg.CurrencyType = Fiat
    /\ call.arg.AcceptedCryptoAssets = <<"BTC", "TON">>
    /\ SentMember("accepted_assets") = "BTC,TON"
    /\ Received.val = call.arg

(***************************************************************************)
(* A webhook server: the client is constructed from a configuration, then  *)
(* HandleUpdate is given up to MaxOps requests, one after the other. Here  *)
(* req is the sequence of the requests handled so far and hu the sequence  *)
(* of what HandleUpdate did and returned for each; call and ret are the    *)
(* call of NewClient and what it returned.                                 *)
(***************************************************************************)
Paid == Encode(UpdateJSON(1, 0))

\* the deliveries: an update and a cut one, each unsigned, signed under
\* either token, and the update once more on a body that fails to be read
Deliveries ==
    [Header : {<<>>} \cup {<<SprintfX(HMAC(Sum256(tok), Bytes(b)))>> :
                             tok \in Tokens, b \in {Paid, DropLast(Paid)}},
     Body : [data : {Paid, DropLast(Paid)}, fails : {FALSE}, consumed : {FALSE}]]
    \cup {[Header |-> <<SprintfX(HMAC(Sum256(TokenA), Bytes(Paid)))>>,
           Body |-> [data |-> Paid, fails |-> TRUE, consumed |-> FALSE]]}

InitServe ==
    /\ cb = NoClient
    /\ req = <<>>
    /\ hu = <<>>
    /\ call = NoCall
    /\ net = [calls |-> 0, answer |-> NoAnswer]
    /\ ret = NoReturn

\* cb, err := NewClient(cf)
New ==
    /\ call.op = "none"
    /\ \E cf \in Configs :
        LET r == NewClient(cf)
        IN  /\ cb' = r.client
            /\ call' = Called("NewClient", cf)
            /\ ret' = [op |-> "NewClient", val |-> r.client, err |-> r.err,
                       steps |-> <<>>, reqs |-> <<>>]
    /\ UNCHANGED <<req, hu, net>>

\* the HTTP server hands one more request to HandleUpdate
Deliver ==
    /\ call.op = "NewClient"
    /\ ret.err = Nil
    /\ Len(req) < MaxOps
    /\ \E r \in Deliveries :
        LET h == HandleUpdateOf(cb, r)
        IN  /\ hu' = Append(hu, h)
            /\ req' = Append(req, [r EXCEPT !.Body.consumed = (h.reads > 0)])
    /\ UNCHANGED <<cb, call, net, ret>>

NextServe == New \/ Deliver

SpecServe == InitServe /\ [][NextServe]_vars

\* C16: construction fails and returns no client when the token is empty,
\* and when the endpoint is empty, the token being looked at first; with
\* both given it succeeds, and the client holds the token and the endpoint
\* given and the HTTP client given, the default one when none was.
C16_Construction ==
    call.op = "NewClient" =>
        LET cf == call.arg
        IN  IF Len(cf.Token) = 0
            THEN ret.err = ErrorsNew("no token was provided for crypto bot") /\ cb = NoClient
            ELSE IF Len(cf.Endpoint) = 0
            THEN /\ ret.err = ErrorsNew("no endpoint was provided for crypto bot")
                 /\ cb = NoClient
            ELSE /\ ret.err = Nil
                 /\ cb.token = cf.Token
                 /\ cb.endpoint = cf.Endpoint
                 /\ cb.client = IF cf.Client = NoClient THEN DefaultClient ELSE cf.Client

\* construction without token and endpoint failed for the token; construction
\* with both and no HTTP client gave a client over the default one
C16_Witness ==
    /\ call.op = "NewClient"
    /\ \/ /\ call.arg.Token = <<>>
          /\ call.arg.Endpoint = ""
          /\ ret.err = ErrorsNew("no token was provided for crypto bot")
       \/ /\ call.arg = [Token |-> TokenA, Endpoint |-> Testnet, Client |-> NoClient]
          /\ ret.err = Nil
          /\ cb = [token |-> TokenA, endpoint |-> Testnet, client |-> DefaultClient]

\* what HandleUpdate returned for the i-th request
Outcome(i) == [u |-> hu[i].u, err |-> hu[i].err]

SameDelivery(i, j) ==
    /\ req[i].Header = req[j].Header
    /\ req[i].Body.data = req[j].Body.data
    /\ req[i].Body.fails = req[j].Body.fails

\* C18: what HandleUpdate returns depends on the token, the signature header
\* and the body alone: whatever was handled before, accepted or not, the
\* same header and body get the same outcome, so a delivery accepted once is
\* accepted again and a rejection leaves a later genuine delivery accepted.
C18_Stateless ==
    call.op = "NewClient" =>
        /\ \A i, j \in 1..Len(hu) : SameDelivery(i, j) => Outcome(i) = Outcome(j)
        /\ \A i \in 1..Len(hu) :
             (/\ ~req[i].Body.fails
              /\ req[i].Body.data = Paid
              /\ req[i].Header = <<Signature(cb, Paid)>>) => Outcome(i) = [u |-> UpdateOf(1, 0), err |-> Nil]

\* the same genuine delivery accepted twice in a row, or accepted right
\* after a rejected one
C18_Witness ==
    /\ call.op = "NewClient"
    /\ Len(hu) = 2
    /\ hu[2].err = Nil
    /\ hu[2].u = UpdateOf(1, 0)
    /\ \/ SameDelivery(1, 2)
       \/ hu[1].err # Nil

(***************************************************************************)
(* Concurrent use: MaxProcs goroutines share one client and each runs one  *)
(* operation on it. A method has a value receiver: the call copies the     *)
(* client (Begin); the operation then works on its copy up to the point    *)
(* where it gives its request to the transport or returns (Send, Handle),  *)
(* and goes on when the transport answers (Receive). Here call[p] is the   *)
(* operation of goroutine p, where it stands (pc), its copy of the client  *)
(* (rcv), the answer it got and how many requests were in flight when it   *)
(* got it (among); ret[p] is what it returned; net.pending are the         *)
(* goroutines whose request is with the transport.                         *)
(***************************************************************************)
MaxProcs == 2

Procs == 1..MaxProcs

Forged ==
    [Header |-> <<SprintfX(HMAC(Sum256(TokenB), Bytes(Paid)))>>,
     Body |-> [data |-> Paid, fails |-> FALSE, consumed |-> FALSE]]

Genuine == [Forged EXCEPT !.Header = <<SprintfX(HMAC(Sum256(TokenA), Bytes(Paid)))>>]

\* the operations a goroutine may run, each with its input
Operations ==
    { <<"GetMe", NoArg>>,
      <<"CreateInvoice", CryptoInvoice>>, <<"CreateInvoice", NewInvoiceZero>>,
      <<"GetInvoices", [InvoiceOptionsZero EXCEPT !.Count = 1]>>,
      <<"HandleUpdate", Genuine>>, <<"HandleUpdate", Forged>> }

\* what the transport may answer to a request
Replies ==
    { DoFailed(ConnectionRefused),
      Responded(200, Encode(OkEnvelope(InvoiceJSON(1)))),
      Responded(400, Encode(ErrorEnvelope(JStr("x"), <<>>))) }

\* the operation op on client c with input arg, the transport answering answer
Run(c, op, arg, answer) ==
    CASE op = "GetMe" -> GetMeOf(c, answer)
      [] op = "CreateInvoice" -> CreateInvoiceOf(c, arg, answer)
      [] op = "GetInvoices" -> GetInvoicesOf(c, arg, answer)
      [] op = "HandleUpdate" ->
           LET h == HandleUpdateOf(c, arg) IN Returned(h.u, h.err, <<>>, <<>>)

\* a slip: a pointer receiver, and makeRequest keeps the URL it built
KeptURL(c, request) == [c EXCEPT !.endpoint = request.URL]

\* the shared client after a call built request on its copy: as it was
Kept(c, request) == c

Idle ==
    [op |-> "none", arg |-> NoArg, pc |-> "idle", rcv |-> NoClient, answer |-> NoAnswer,
     among |-> 0]

InitConcurrent ==
    /\ cb \in APIClients
    /\ req = NoRequest
    /\ hu = HandleUpdateIdle
    /\ call = [p \in Procs |-> Idle]
    /\ net = [calls |-> 0, answer |-> NoAnswer, pending |-> {}]
    /\ ret = [p \in Procs |-> NoReturn]

\* goroutine p calls an operation: the receiver is copied
Begin(p) ==
    /\ call[p].pc = "idle"
    /\ \E o \in Operations :
        call' = [call EXCEPT ![p] = [Idle EXCEPT !.op = o[1], !.arg = o[2],
                                                 !.pc = "called", !.rcv = cb]]
    /\ UNCHANGED <<cb, req, hu, net, ret>>

\* an API operation of p runs up to cb.client.Do, or returns before it
Send(p) ==
    /\ call[p].pc = "called"
    /\ call[p].op # "HandleUpdate"
    /\ LET r == Run(call[p].rcv, call[p].op, call[p].arg, NoAnswer)
       IN  IF Len(r.reqs) = 0
           THEN /\ call' = [call EXCEPT ![p].pc = "done"]
                /\ ret' = [ret EXCEPT ![p] = ReturnedBy(call[p].op, r)]
                /\ UNCHANGED <<cb, net>>
           ELSE /\ call' = [call EXCEPT ![p].pc = "sent"]
                /\ net' = [net EXCEPT !.calls = @ + 1, !.pending = @ \cup {p}]
                /\ cb' = Kept(cb, r.reqs[1])
                /\ UNCHANGED ret
    /\ UNCHANGED <<req, hu>>

\* the transport answers the request of p, and the operation returns
Receive(p) ==
    /\ call[p].pc = "sent"
    /\ \E answer \in Replies :
        /\ call' = [call EXCEPT ![p].pc = "done", ![p].answer = answer,
                                ![p].among = Cardinality(net.pending)]
        /\ ret' = [ret EXCEPT ![p] = ReturnedBy(call[p].op,
                                         Run(call[p].rcv, call[p].op, call[p].arg, answer))]
    /\ net' = [net EXCEPT !.pending = @ \ {p}]
    /\ UNCHANGED <<cb, req, hu>>

\* HandleUpdate of p runs and returns
Handle(p) ==
    /\ call[p].pc = "called"
    /\ call[p].op = "HandleUpdate"
    /\ call' = [call EXCEPT ![p].pc = "done"]
    /\ ret' = [ret EXCEPT ![p] = ReturnedBy("HandleUpdate",
                                     Run(call[p].rcv, "HandleUpdate", call[p].arg, NoAnswer))]
    /\ UNCHANGED <<cb, req, hu, net>>

NextConcurrent ==
    \E p \in Procs :
        \/ Begin(p)
        \/ Send(p)
        \/ Receive(p)
        \/ Handle(p)

SpecConcurrent == InitConcurrent /\ [][NextConcurrent]_vars

\* what the operation k returns when it runs alone on client c, with the
\* same input and the same answer of the transport
Alone(c, k) == ReturnedBy(k.op, Run(c, k.op, k.arg, k.answer))

\* C17: however the operations of the goroutines interleave, the client's
\* token, endpoint and HTTP client stay as construction left them, and each
\* operation returns what it returns when it runs alone with the same input
\* and the same answer of the transport.
C17_ConcurrentUse ==
    [][/\ cb' = cb
       /\ \A p \in Procs : call'[p].pc = "done" => ret'[p] = Alone(cb', call'[p])]_vars

\* an invoice created from an answer that came while the request of the
\* other goroutine was in flight too
C17_Witness ==
    \E p \in Procs :
        /\ call[p].pc = "done"
        /\ call[p].op = "CreateInvoice"
        /\ call[p].among = 2
        /\ ret[p].err = Nil
        /\ ret[p].val.ID = 1

\* C21: CreateCheck turns down, before any network call, a new check with an
\* empty CryptoAsset or an empty Amount; CreateTransfer turns down, before
\* any network call, a new transfer with a required field empty or zero:
\* UserID, CryptoAsset, Amount or SpendID.
C21_RequiredFields ==
    /\ (call.n > 0 /\ call.op = "CreateCheck") =>
        /\ call.arg.CryptoAsset = "" => TurnedDown /\ RejectedFor("CryptoAsset cannot be empty")
        /\ call.arg.Amount = "" => TurnedDown /\ RejectedFor("Amount cannot be empty")
    /\ (call.n > 0 /\ call.op = "CreateTransfer") =>
        /\ call.arg.CryptoAsset = "" => TurnedDown /\ RejectedFor("CryptoAsset cannot be empty")
        /\ call.arg.SpendID = "" => TurnedDown /\ RejectedFor("SpendID cannot be empty")
        /\ call.arg.UserID = 0 => TurnedDown
        /\ call.arg.Amount = "" => TurnedDown

\* a transfer to user 0, or of no amount, accepted and sent as it is
C21_Divergence ==
    /\ call.op = "CreateTransfer"
    /\ Sent
    /\ ret.err.kind # "joinError"
    /\ \/ call.arg.UserID = 0 /\ SentMember("user_id") = 0
       \/ call.arg.Amount = "" /\ SentMember("amount") = ""

(***************************************************************************)
(* Claims about the answers of the transport.                              *)
(***************************************************************************)
\* the operation op of client c on input arg, the transport answering answer
Operation(c, op, arg, answer) ==
    CASE op = "GetMe" -> GetMeOf(c, answer)
      [] op = "CreateInvoice" -> CreateInvoiceOf(c, arg, answer)
      [] op = "DeleteInvoice" -> DeleteInvoiceOf(c, arg, answer)
      [] op = "GetInvoices" -> GetInvoicesOf(c, arg, answer)
      [] op = "CreateCheck" -> CreateCheckOf(c, arg, answer)
      [] op = "DeleteCheck" -> DeleteCheckOf(c, arg, answer)
      [] op = "GetChecks" -> GetChecksOf(c, arg, answer)
      [] op = "CreateTransfer" -> CreateTransferOf(c, arg, answer)
      [] op = "GetTransfers" -> GetTransfersOf(c, arg, answer)
      [] op = "GetBalance" -> GetBalanceOf(c, answer)
      [] op = "GetExchangeRates" -> GetExchangeRatesOf(c, answer)
      [] op = "GetAppStats" -> GetAppStatsOf(c, arg, answer)

\* status codes a gateway answers with
Statuses == {200, 400, 500}

\* C22: what an operation returns does not depend on the status code of the
\* response: the same operation on the same request, answered by the same
\* body under another status, returns the same result and the same error.
C22_StatusIgnored ==
    (call.n > 0 /\ net.answer.kind = "response") =>
        \A s \in Statuses :
            LET other == Operation(cb, call.op, call.arg, [net.answer EXCEPT !.status = s])
            IN  /\ other.err = ret.err
                /\ other.val = ret.val
                /\ other.reqs = ret.reqs

\* an invoice returned from an ok=true envelope under status 500, and the
\* error of an ok=false envelope returned under status 200
C22_Witness ==
    /\ call.op = "CreateInvoice"
    /\ Passed
    /\ \/ /\ net.answer = Responded(500, Encode(OkEnvelope(InvoiceJSON(1))))
          /\ ret.err = Nil
          /\ ret.val = InvoiceOf(1)
       \/ /\ net.answer = Responded(200, Encode(ErrorEnvelope(ErrorObject, <<>>)))
          /\ ret.err = ErrorsNewRaw(Encode(ErrorObject))

(***************************************************************************)
(* Claims about the bytes HandleUpdate works on.                           *)
(***************************************************************************)
\* C23: HandleUpdate reads the body in full exactly once, computes the MAC
\* over that complete byte sequence, and deserializes exactly the bytes the
\* MAC was verified over; a failure reading the body returns the read error
\* with no MAC computed or compared and nothing parsed.
C23_OneBody ==
    (hu.done /\ Len(HeaderGet(req)) > 0) =>
        /\ hu.reads = 1
        /\ req.Body.consumed
        /\ req.Body.fails =>
            /\ hu.err = BodyUnread
            /\ hu.macs = 0
            /\ hu.unmarshals = 0
            /\ hu.u = Zero(Update)
        /\ ~req.Body.fails =>
            /\ hu.macs = 1
            /\ hu.macOver = req.Body.data
            /\ hu.unmarshals <= 1
            /\ hu.unmarshals = 1 => (hu.parsed = hu.macOver /\ GenuineSignature)
            /\ hu.err \in {Nil, UnmarshalFailed} => hu.unmarshals = 1

\* an update was decoded from the very bytes its MAC was verified over
C23_Witness ==
    /\ hu.done
    /\ hu.reads = 1
    /\ hu.macs = 1
    /\ hu.unmarshals = 1
    /\ Len(hu.macOver) > 0
    /\ hu.parsed = hu.macOver
    /\ hu.macOver = req.Body.data
    /\ hu.err = Nil

(***************************************************************************)
(* Claims about the dates of GetAppStats.                                  *)
(***************************************************************************)
\* the members of the body of the request the last call sent
SentMembers == Parse(ret.reqs[1].Body.data).val.v

\* the body has no member key, or one that holds no date: null or ""
NoDateSent(key) ==
    \A i \in 1..Len(SentMembers) :
        SentMembers[i][1] = key => SentMembers[i][2] \in {JNull, JStr("")}

\* C24: StartAt and EndAt of AppStatsOptions are optional: GetAppStats sends
\* each date that is set as the ISO-8601 string of that instant, and sends no
\* date value for a date left unset (the zero time).
C24_OptionalDates ==
    (call.n > 0 /\ call.op = "GetAppStats" /\ Sent) =>
        /\ call.arg.StartAt # ZeroTime =>
                SentMember("start_at") = FormatRFC3339(call.arg.StartAt)
        /\ call.arg.EndAt # ZeroTime =>
                SentMember("end_at") = FormatRFC3339(call.arg.EndAt)
        /\ call.arg.StartAt = ZeroTime => NoDateSent("start_at")
        /\ call.arg.EndAt = ZeroTime => NoDateSent("end_at")

\* an end date left unset went out as midnight of 1 January of year 1
C24_Divergence ==
    /\ call.n > 0
    /\ call.op = "GetAppStats"
    /\ Sent
    /\ call.arg.EndAt = ZeroTime
    /\ SentMember("end_at") = "0001-01-01T00:00:00Z"

(***************************************************************************)
(* Claims about what is returned beside an error.                          *)
(***************************************************************************)
\* the zero value of what the operation op returns
ZeroResult(op) ==
    CASE op \in {"CreateInvoice"} -> Zero(Invoice)
      [] op \in {"CreateCheck"} -> Zero(Check)
      [] op \in {"CreateTransfer"} -> Zero(Transfer)
      [] op \in {"GetAppStats"} -> Zero(AppStats)
      [] op \in {"DeleteInvoice", "DeleteCheck"} -> FALSE
      [] op \in {"GetMe", "GetInvoices", "GetChecks", "GetTransfers", "GetBalance",
                 "GetExchangeRates"} -> <<>>

\* the ok of the envelope in body, whatever its result: FALSE when the body
\* has none
OkOf(body) == Unmarshal(body, response(TRaw)).val.Ok

\* C25: an operation returns success only for an envelope with ok=true: when
\* the envelope has ok=false or no ok at all (as {} and null have), the
\* operation returns a non-nil error and the zero value of its result type,
\* also when the error member is absent or null; and no operation returns a
\* result together with an error.
C25_SuccessOnlyWithOk ==
    call.n > 0 =>
        /\ ret.err # Nil => ret.val = ZeroResult(call.op)
        /\ (Answered /\ ~OkOf(net.answer.body)) =>
                (ret.err # Nil /\ ret.val = ZeroResult(call.op))
        /\ (Answered /\ net.answer.body \in SilentBodies \cup BareErrorBodies) =>
                (ret.err # Nil /\ ret.val = ZeroResult(call.op))
        /\ (Answered /\ ret.err = Nil) => OkOf(net.answer.body)

\* CreateInvoice got an invoice in an envelope without ok and returned an
\* error and the zero Invoice
C25_Witness ==
    /\ call.op = "CreateInvoice"
    /\ Answered
    /\ net.answer.body = Encode(JObj(<< <<"result", InvoiceJSON(1)>> >>))
    /\ ret.err = ErrorsNewRaw(<<>>)
    /\ ret.val = Zero(Invoice)

(***************************************************************************)
(* Claims about what HandleUpdate returns beside an error.                 *)
(***************************************************************************)
\* the errors of HandleUpdate, one for each path that fails
HandleUpdateErrors == {SignatureMissing, BodyUnread, VerifyFailed, UnmarshalFailed}

\* C26: HandleUpdate grants no partial trust: on each of its error paths
\* (signature missing, body unread, signature mismatch, body unparseable)
\* the Update it returns is the zero value, and an Update that is not the
\* zero value is returned only with a nil error, after the signature check
\* has passed.
C26_NoPartialTrust ==
    hu.done =>
        /\ hu.err \in HandleUpdateErrors \cup {Nil}
        /\ hu.err # Nil => hu.u = Zero(Update)
        /\ hu.u # Zero(Update) =>
            /\ hu.err = Nil
            /\ ~req.Body.fails
            /\ GenuineSignature
            /\ hu.macs = 1

\* a body whose decode fails after update_id was filled in, under its
\* genuine signature, gave the error and the zero Update
C26_Witness ==
    /\ hu.done
    /\ req.Body.data = Encode(JObj(<< <<"update_id", JNum(1)>>, <<"update_type", JNum(1)>> >>))
    /\ ~req.Body.fails
    /\ GenuineSignature
    /\ Unmarshal(req.Body.data, Update).val.ID = 1
    /\ hu.err = UnmarshalFailed
    /\ hu.u = Zero(Update)

(***************************************************************************)
(* Claims about the currency type of the invoices sent.                    *)
(***************************************************************************)
\* C27: every new invoice CreateInvoice lets through to the network has the
\* currency type crypto or fiat, with the mandatory fields of that type; a
\* new invoice of any other currency type is turned down before any network
\* call.
C27_KnownCurrencyType ==
    (call.n > 0 /\ call.op = "CreateInvoice") =>
        LET in == call.arg
        IN  /\ Sent =>
                \/ in.CurrencyType = Crypto /\ in.CryptoAsset # ""
                \/ in.CurrencyType = Fiat /\ in.Fiat # "" /\ in.AcceptedCryptoAssets # <<>>
            /\ in.CurrencyType \notin {Crypto, Fiat} => TurnedDown

\* a new invoice of the currency type stars, accepted and sent as it is
C27_Divergence ==
    /\ call.n > 0
    /\ call.op = "CreateInvoice"
    /\ call.arg.CurrencyType = "stars"
    /\ Sent
    /\ ret.err.kind # "joinError"
    /\ SentMember("currency_type") = "stars"

============================================================================
